---- MODULE Spec2Model ----
(***************************************************************************)
(* State-machine model of the UGC creator finder backend                   *)
(* (src/backend/app): the search orchestrator of api/routes/creators.py,   *)
(* the source normalizers, the demographic inference of                    *)
(* services/enrichment.py and the scoring of services/scoring.py.          *)
(*                                                                         *)
(* Representation.  Python None is the string None.  A text (bio, name) is *)
(* a sequence of whitespace-separated tokens; "kw in text" is decided on   *)
(* tokens with the substring tables below.  A rate is in tenths of a       *)
(* percent and a score in tenths of a point, so round(x, 1) is a rounding  *)
(* to an integer.  An age-range string is a TLA+ string whose characters   *)
(* are given by Chars, so that replace/split/int act on characters.        *)
(***************************************************************************)
EXTENDS Integers, Sequences, FiniteSets, Bags, TLC

None == "None"

\* ------------------------------------------------------------------ bounds
\* Most raw records one source returns to one search (the request's page_size).
MaxFetch == 2
\* Most raw records all sources together return to one platform=all search.
MaxCollected == 3
\* Number of searches a behaviour runs; the clock ticks once per search.
MaxTime == 2

\* ------------------------------------------------------------ dict access
\* dict.get(k, default)
Get(d, k, default) == IF k \in DOMAIN d THEN d[k] ELSE default

\* Python truthiness of an optional string value
Truthy(v) == v # None /\ v # ""

\* Python truthiness of a text or list value (None and "" are the empty text)
HasText(t) == t # <<>>

\* F(e) with e evaluated once, as Python evaluates the right-hand side of an
\* assignment once before the statements that use it
At(e, F(_)) == CHOOSE r \in { F(v) : v \in {e} } : TRUE

Min(a, b) == IF a <= b THEN a ELSE b
Max(a, b) == IF a >= b THEN a ELSE b

\* str.lower() on the strings of the model
Lower(s) ==
  CASE s = "FEMALE" -> "female"
    [] s = "Female" -> "female"
    [] s = "MALE"   -> "male"
    [] s = "Male"   -> "male"
    [] s = "Mom"    -> "mom"
    [] s = "Born"   -> "born"
    [] s = "Gen"    -> "gen"
    [] s = "X"      -> "x"
    [] s = "Queen"  -> "queen"
    [] s = "UGC"    -> "ugc"
    [] s = "Age"    -> "age"
    [] s = "Grandma" -> "grandma"
    [] s = "Sarah"  -> "sarah"
    [] s = "Susan"  -> "susan"
    [] s = "Alex"   -> "alex"
    [] s = "Wellness" -> "wellness"
    [] s = "Honest" -> "honest"
    [] s = "Skincare" -> "skincare"
    [] s = "DM"     -> "dm"
    [] s = "Home"   -> "home"
    [] s = "DIY"    -> "diy"
    [] s = "Empty"  -> "empty"
    [] s = "Crafting" -> "crafting"
    [] s = "Pin-spiration" -> "pin-spiration"
    [] s = "Interior" -> "interior"
    [] s = "Recipes" -> "recipes"
    [] s = "Nana"   -> "nana"
    [] OTHER        -> s

\* text.lower(), token by token
LowerText(t) == [i \in DOMAIN t |-> Lower(t[i])]

\* ------------------------------------------------------- token-level text
\* tok contains kw as a proper substring (vocabulary of the model)
Substrings ==
  { <<"reviewer", "review">>, <<"reviews", "review">>, <<"reviewer", "view">>,
    <<"grandmother", "mother">>, <<"grandmother", "grandma">>,
    <<"mommy", "mom">>, <<"moms", "mom">>, <<"creators", "creator">>,
    <<"women", "men">>, <<"lifestyle", "life">>, <<"teenage", "age">>,
    <<"1978", "197">>, <<"1989", "198">>, <<"1965", "196">>,
    <<"40s", "40">>, <<"50s", "50">>, <<"40+", "40">> }

\* tok starts with w / ends with w, w a proper part of tok
Prefixes ==
  { <<"reviewer", "review">>, <<"reviews", "review">>, <<"grandmother", "grandma">>,
    <<"mommy", "mom">>, <<"moms", "mom">>, <<"creators", "creator">>,
    <<"lifestyle", "life">>, <<"1978", "197">>, <<"1989", "198">>,
    <<"1965", "196">>, <<"40s", "40">>, <<"50s", "50">>, <<"40+", "40">>,
    <<"yo,", "yo">>, <<"older", "old">> }

Suffixes ==
  { <<"grandmother", "mother">>, <<"teenage", "age">>, <<"reborn", "born">>,
    <<"women", "men">>, <<"|47", "47">> }

Within(kw, tok)     == tok = kw \/ <<tok, kw>> \in Substrings
StartsWith(tok, w)  == tok = w \/ <<tok, w>> \in Prefixes
EndsWith(tok, w)    == tok = w \/ <<tok, w>> \in Suffixes

\* `kw in text` for a keyword of one or more words: the keyword's first word
\* ends a token, its last word starts a token, the words between are tokens.
KwAt(kw, t, i) ==
  /\ i + Len(kw) - 1 <= Len(t)
  /\ IF Len(kw) = 1
       THEN Within(kw[1], t[i])
       ELSE /\ EndsWith(t[i], kw[1])
            /\ StartsWith(t[i + Len(kw) - 1], kw[Len(kw)])
            /\ \A j \in 2..(Len(kw) - 1) : t[i + j - 1] = kw[j]

KwIn(kw, t) == \E i \in 1..Len(t) : KwAt(kw, t, i)

\* sum(1 for kw in kws if kw in text)
CountKw(kws, t) == Cardinality({ i \in 1..Len(kws) : KwIn(kws[i], t) })

\* int(tok) for the digit tokens of the model, -1 for any other token
IntOf(tok) ==
  CASE tok = "3"    -> 3
    [] tok = "35"   -> 35
    [] tok = "40"   -> 40
    [] tok = "47"   -> 47
    [] tok = "48"   -> 48
    [] tok = "62"   -> 62
    [] tok = "1965" -> 1965
    [] tok = "1978" -> 1978
    [] tok = "1989" -> 1989
    [] tok = "1998" -> 1998
    [] tok = "2003" -> 2003
    [] OTHER        -> -1

\* (\d{4}) / (\d{2}) at the start of a token, (\d{2}) at its end, -1 if none
Lead4(tok) == IF IntOf(tok) \in 1000..9999 THEN IntOf(tok) ELSE -1
Lead2(tok) ==
  CASE IntOf(tok) \in 10..99     -> IntOf(tok)
    [] IntOf(tok) \in 1000..9999 -> IntOf(tok) \div 100
    [] tok \in {"40s", "40+"}    -> 40
    [] tok = "50s"               -> 50
    [] OTHER                     -> -1
Trail2(tok) ==
  CASE IntOf(tok) \in 10..99     -> IntOf(tok)
    [] IntOf(tok) \in 1000..9999 -> IntOf(tok) % 100
    [] tok = "|47"               -> 47
    [] OTHER                     -> -1
\* a token that is exactly two digits
Exact2(tok) == IF IntOf(tok) \in 10..99 THEN IntOf(tok) ELSE -1

\* position of the leftmost match: least i in 1..Len(t) with P(i), 0 if none
FirstAt(t, P(_)) ==
  IF \E i \in 1..Len(t) : P(i)
    THEN CHOOSE i \in 1..Len(t) : P(i) /\ \A j \in 1..(i - 1) : ~P(j)
    ELSE 0

Tok(t, i) == IF i \in 1..Len(t) THEN t[i] ELSE ""

\* ------------------------------------------- services/enrichment.py
CurrentYear == 2026

COMMON_FEMALE_NAMES ==
  { "sarah", "jennifer", "lisa", "jessica", "michelle", "amanda", "stephanie",
    "nicole", "melissa", "elizabeth", "heather", "amy", "anna", "angela",
    "rebecca", "laura", "karen", "christine", "catherine", "andrea",
    "susan", "rachel", "mary", "donna", "carol", "sandra", "diane",
    "pamela", "sharon", "kelly", "deborah", "julie", "kim", "tammy",
    "tracy", "tina", "wendy", "cheryl", "brenda", "denise", "teresa",
    "maria", "linda", "barbara", "nancy", "betty", "margaret", "patricia",
    "dorothy", "ruth", "helen", "janet", "debra", "carolyn", "cynthia",
    "christina", "ashley", "emily", "kimberly", "megan", "brittany",
    "samantha", "danielle", "natalie", "kathleen", "victoria", "vanessa",
    "jacqueline", "holly", "jill", "amber", "allison", "erin", "april",
    "katie", "kate", "lauren", "hannah", "abigail", "alexis", "courtney",
    "brooke", "dawn", "stacey", "tiffany", "crystal", "robin", "shannon",
    "tamara", "colleen", "leslie", "jenn", "jen", "liz", "sue", "becky",
    "steph", "nikki", "manda", "missy" }

\* AGE_INDICATORS, in the dict's insertion order
AGE_INDICATORS ==
  << [range |-> "40-49",
      kws   |-> << <<"in", "my", "40s">>, <<"40s">>, <<"over", "40">>, <<"forty">>,
                   <<"born", "198">>, <<"born", "in", "the", "80s">>,
                   <<"gen", "x">>, <<"gen-x">> >>],
     [range |-> "45-54",
      kws   |-> << <<"born", "197">>, <<"born", "in", "the", "70s">>, <<"midlife">>,
                   <<"middle", "age">>, <<"mom", "of", "teens">>,
                   <<"teenage", "kids">> >>],
     [range |-> "50-59",
      kws   |-> << <<"in", "my", "50s">>, <<"50s">>, <<"over", "50">>, <<"fifty">>,
                   <<"born", "196">>, <<"born", "in", "the", "60s">>,
                   <<"empty", "nester">>, <<"grandma">>, <<"grandmother">>,
                   <<"nana">>, <<"grandkids">> >>],
     [range |-> "55-60",
      kws   |-> << <<"born", "196">>, <<"late", "50s">>, <<"almost", "60">>,
                   <<"approaching", "60">> >>] >>

FEMALE_INDICATORS ==
  << <<"mom">>, <<"mother">>, <<"mama">>, <<"mum">>, <<"wife">>, <<"she/her">>,
     <<"girl">>, <<"woman">>, <<"women">>, <<"queen">>, <<"goddess">>, <<"lady">>,
     <<"feminine">>, <<"sister">>, <<"daughter">>, <<"grandma">>,
     <<"grandmother">>, <<"auntie">>, <<"aunt">> >>

\* f"{decade_start}-{decade_start + 4}" with decade_start = (age // 5) * 5
Bucket(age) ==
  LET d == (age \div 5) * 5
  IN  CASE d = 40 -> "40-44" [] d = 45 -> "45-49" [] d = 50 -> "50-54"
        [] d = 55 -> "55-59" [] d = 60 -> "60-64"

InBand(age) == 40 <= age /\ age <= 60

\* The seven regular expressions of infer_age_range, on tokens.  Each gives the
\* number captured by the leftmost match, or -1 when the pattern does not match.
BornYear(b) ==
  LET P(i) == /\ EndsWith(b[i], "born")
              /\ \/ Lead4(Tok(b, i + 1)) >= 0
                 \/ Tok(b, i + 1) = "in" /\ Lead4(Tok(b, i + 2)) >= 0
      captured(i) == IF i = 0 THEN -1
                       ELSE IF Lead4(Tok(b, i + 1)) >= 0 THEN Lead4(Tok(b, i + 1))
                       ELSE Lead4(Tok(b, i + 2))
  IN  At(FirstAt(b, P), captured)

AgeMarker(b) ==
  LET P(i) == /\ \/ EndsWith(b[i], "age") \/ EndsWith(b[i], "aged")
                 \/ EndsWith(b[i], "i'm") \/ EndsWith(b[i], "im")
              /\ Lead2(Tok(b, i + 1)) >= 0
      captured(i) == IF i = 0 THEN -1 ELSE Lead2(Tok(b, i + 1))
  IN  At(FirstAt(b, P), captured)

AtAge(b) ==
  LET P(i) == /\ EndsWith(b[i], "at")
              /\ Exact2(Tok(b, i + 1)) >= 0
              /\ \/ StartsWith(Tok(b, i + 2), "years")
                 \/ StartsWith(Tok(b, i + 2), "and")
      captured(i) == IF i = 0 THEN -1 ELSE Exact2(Tok(b, i + 1))
  IN  At(FirstAt(b, P), captured)

YearOld(b) ==
  LET P(i) == /\ Trail2(b[i]) >= 0
              /\ Tok(b, i + 1) = "year"
              /\ StartsWith(Tok(b, i + 2), "old")
      captured(i) == IF i = 0 THEN -1 ELSE Trail2(b[i])
  IN  At(FirstAt(b, P), captured)

ClassOf(b) ==
  LET P(i) == /\ EndsWith(b[i], "class")
              /\ Tok(b, i + 1) = "of"
              /\ Lead4(Tok(b, i + 2)) \in 1900..2099
      captured(i) == IF i = 0 THEN -1 ELSE Lead4(Tok(b, i + 2))
  IN  At(FirstAt(b, P), captured)

EstYear(b) ==
  LET P(i) == /\ \/ EndsWith(b[i], "est") \/ EndsWith(b[i], "est.")
                 \/ EndsWith(b[i], "since")
              /\ Lead4(Tok(b, i + 1)) \in 1960..1979
      captured(i) == IF i = 0 THEN -1 ELSE Lead4(Tok(b, i + 1))
  IN  At(FirstAt(b, P), captured)

PipeAge(b) ==
  LET P(i) == /\ EndsWith(b[i], "|")
              /\ Exact2(Tok(b, i + 1)) >= 0
              /\ \/ StartsWith(Tok(b, i + 2), "|")
                 \/ StartsWith(Tok(b, i + 2), "yo")
                 \/ StartsWith(Tok(b, i + 2), "y/o")
      captured(i) == IF i = 0 THEN -1 ELSE Exact2(Tok(b, i + 1))
  IN  At(FirstAt(b, P), captured)

\* for age_range, keywords in AGE_INDICATORS.items(): first range with a keyword
KeywordRange(b) ==
  LET hit(k) == \E j \in 1..Len(AGE_INDICATORS[k].kws) : KwIn(AGE_INDICATORS[k].kws[j], b)
  IN  IF \E k \in 1..Len(AGE_INDICATORS) : hit(k)
        THEN AGE_INDICATORS[CHOOSE k \in 1..Len(AGE_INDICATORS) :
                              hit(k) /\ \A m \in 1..(k - 1) : ~hit(m)].range
        ELSE None

\* infer_age_range(bio) -> <<estimated_age_range, confidence>>
infer_age_range(bio) ==
  LET byKeyword(r) == IF r # None THEN <<r, "medium">> ELSE <<None, "low">>
      \* m: what the seven patterns capture in the lowered bio b
      decide(b, m) ==
        LET a1 == IF m[1] >= 0 THEN CurrentYear - m[1] ELSE -1
            a2 == m[2]
            a3 == m[3]
            a4 == m[4]
            a5 == IF m[5] >= 0 THEN CurrentYear - (m[5] - 18) ELSE -1
            a6 == IF m[6] >= 0 THEN CurrentYear - m[6] ELSE -1
            a7 == m[7]
        IN  CASE InBand(a1) -> <<Bucket(a1), "high">>
              [] ~InBand(a1) /\ InBand(a2) -> <<Bucket(a2), "high">>
              [] ~InBand(a1) /\ ~InBand(a2) /\ InBand(a3) -> <<Bucket(a3), "high">>
              [] ~InBand(a1) /\ ~InBand(a2) /\ ~InBand(a3) /\ InBand(a4) ->
                   <<Bucket(a4), "high">>
              [] ~InBand(a1) /\ ~InBand(a2) /\ ~InBand(a3) /\ ~InBand(a4)
                 /\ InBand(a5) -> <<Bucket(a5), "medium">>
              [] ~InBand(a1) /\ ~InBand(a2) /\ ~InBand(a3) /\ ~InBand(a4)
                 /\ ~InBand(a5) /\ InBand(a6) -> <<Bucket(a6), "medium">>
              [] ~InBand(a1) /\ ~InBand(a2) /\ ~InBand(a3) /\ ~InBand(a4)
                 /\ ~InBand(a5) /\ ~InBand(a6) /\ InBand(a7) -> <<Bucket(a7), "high">>
              [] OTHER -> At(KeywordRange(b), byKeyword)
      onLowered(b) ==
        At(<<BornYear(b), AgeMarker(b), AtAge(b), YearOld(b), ClassOf(b),
             EstYear(b), PipeAge(b)>>, LAMBDA m : decide(b, m))
      onBio(t) == IF ~HasText(t) THEN <<None, "low">> ELSE At(LowerText(t), onLowered)
  IN  At(bio, onBio)

\* infer_gender with the name looked up token by token, not by its first token
infer_gender_any_name_token(bio, name) ==
  LET n == IF HasText(bio) THEN CountKw(FEMALE_INDICATORS, LowerText(bio)) ELSE 0
  IN  IF ~HasText(bio) /\ ~HasText(name) THEN <<None, "low">>
      ELSE IF n >= 2 THEN <<"female", "high">>
      ELSE IF n = 1 THEN <<"female", "medium">>
      ELSE IF \E i \in DOMAIN name : Lower(name[i]) \in COMMON_FEMALE_NAMES
        THEN <<"female", "low">>
      ELSE <<None, "low">>

\* infer_gender(bio, name) -> <<gender, confidence>>
infer_gender(bio, name) ==
  LET decide(nm, female_matches) ==
        LET first_name == IF HasText(nm) THEN Lower(nm[1]) ELSE ""
        IN  IF female_matches >= 2 THEN <<"female", "high">>
            ELSE IF female_matches = 1 THEN <<"female", "medium">>
            ELSE IF HasText(nm) /\ first_name \in COMMON_FEMALE_NAMES
              THEN <<"female", "low">>
            ELSE <<None, "low">>
      onLowered(nm, bio_lower) ==
        At(CountKw(FEMALE_INDICATORS, bio_lower), LAMBDA n : decide(nm, n))
      \* v = <<bio, name>>
      onArgs(v) ==
        IF ~HasText(v[1]) /\ ~HasText(v[2]) THEN <<None, "low">>
        ELSE At(IF HasText(v[1]) THEN LowerText(v[1]) ELSE <<>>,
                LAMBDA b : onLowered(v[2], b))
  IN  At(<<bio, name>>, onArgs)

\* enrich_creator_demographics(bio, api_gender, api_age_range, name)
enrich_creator_demographics(bio, api_gender, api_age_range, name) ==
  LET \* v = << <<gender, confidence>>, <<age_range, confidence>> >>
      result(v) == [gender |-> v[1][1], gender_confidence |-> v[1][2],
                    age_range |-> v[2][1], age_confidence |-> v[2][2]]
  IN  At(<< IF Truthy(api_gender) THEN <<api_gender, "high">>
            ELSE infer_gender(bio, name),
            IF Truthy(api_age_range) THEN <<api_age_range, "high">>
            ELSE infer_age_range(bio) >>, result)

\* ---------------------------------------------- services/scoring.py
\* round(n / d) for n >= 0, d > 0, ties to the even integer (Python's round)
RoundDiv(n, d) ==
  LET q == n \div d
      r == n % d
  IN  IF 2 * r < d THEN q
      ELSE IF 2 * r > d THEN q + 1
      ELSE IF q % 2 = 0 THEN q ELSE q + 1

\* PLATFORM_AVG_ENGAGEMENT.get(platform.lower(), 2.0), in tenths of a percent
PLATFORM_AVG_ENGAGEMENT(platform) ==
  CASE platform = "tiktok"    -> 50
    [] platform = "instagram" -> 20
    [] platform = "youtube"   -> 30
    [] platform = "facebook"  -> 15
    [] platform = "pinterest" -> 25
    [] platform = "twitter"   -> 15
    [] platform = "backstage" -> 20
    [] OTHER                  -> 20

NICHE_KEYWORDS ==
  << <<"leakproof">>, <<"leak", "proof">>, <<"leak-proof">>,
     <<"period">>, <<"period", "underwear">>, <<"period", "panties">>,
     <<"incontinence">>, <<"bladder">>,
     <<"pelvic", "floor">>, <<"pelvic", "health">>,
     <<"postpartum">>, <<"post-partum">>, <<"post", "partum">>,
     <<"menopause">>, <<"perimenopause">>, <<"menstrual">>,
     <<"feminine">>, <<"feminine", "hygiene">>, <<"feminine", "care">>,
     <<"underwear">>, <<"intimates">>, <<"intimate">>,
     <<"women's", "health">>, <<"womens", "health">> >>

relevance_keywords ==
  << <<"ugc">>, <<"creator">>, <<"content", "creator">>, <<"review">>,
     <<"unboxing">>, <<"authentic">>, <<"real">>, <<"honest">>, <<"everyday">>,
     <<"mom">>, <<"mother">>, <<"women">>, <<"lifestyle">>, <<"over", "40">>,
     <<"over", "50">>, <<"midlife">> >>

\* calculate_engagement_score without the cap at 100
calculate_engagement_score_uncapped(engagement_rate, platform) ==
  LET avg == PLATFORM_AVG_ENGAGEMENT(Lower(platform))
  IN  IF engagement_rate <= 0 THEN 0
      ELSE RoundDiv(500 * engagement_rate, avg)

\* calculate_engagement_score(engagement_rate, platform): rate in tenths of a
\* percent, result in tenths of a point
calculate_engagement_score(engagement_rate, platform) ==
  LET avg == PLATFORM_AVG_ENGAGEMENT(Lower(platform))
  IN  IF engagement_rate <= 0 THEN 0
      ELSE Min(1000, RoundDiv(500 * engagement_rate, avg))

\* calculate_quality_score(follower_count, engagement_rate, post_count,
\*                         avg_likes, avg_comments), result in tenths
calculate_quality_score(follower_count, engagement_rate, post_count,
                        avg_likes, avg_comments) ==
  LET \* authenticity = min(40, ratio * 20) as the fraction num / den of a tenth
      liked == avg_likes + avg_comments > 0
      num == IF follower_count > 0
               THEN IF liked THEN 10000 * (avg_likes + avg_comments)
                    ELSE 10 * engagement_rate
               ELSE 0
      den == IF follower_count > 0 /\ liked THEN follower_count ELSE 1
      capped == num > 400 * den
      consistency == IF post_count > 500 THEN 300
                     ELSE IF post_count > 200 THEN 250
                     ELSE IF post_count > 50 THEN 150
                     ELSE 50
      \* comment_ratio = avg_comments / avg_likes against 0.05 and 0.02
      community == IF avg_likes > 0 /\ avg_comments > 0
                     THEN IF 100 * avg_comments > 5 * avg_likes THEN 300
                          ELSE IF 100 * avg_comments > 2 * avg_likes THEN 200
                          ELSE 100
                     ELSE 150
      rest == consistency + community
      total == IF capped THEN 400 + rest
               ELSE IF num + den * rest < 0 THEN 0
               ELSE RoundDiv(num + den * rest, den)
  IN  Min(1000, Max(0, total))

\* calculate_relevance_score(bio, niche_tags, target_niche) as the normalizers
\* call it (no audience_demographics), result in tenths
calculate_relevance_score(bio, niche_tags, target_niche) ==
  LET tags == IF HasText(niche_tags) THEN niche_tags ELSE <<>>
      tag_score ==
        IF Truthy(target_niche) /\ tags # <<>>
          THEN IF \E i \in 1..Len(tags) : Within(Lower(target_niche), Lower(tags[i]))
                 THEN 350 ELSE 0
          ELSE 0
      \* n = <<keyword_matches, niche_matches>>
      score(n) == Min(1000, Max(0, Min(200, n[1] * 40) + Min(150, n[2] * 50) + tag_score))
      onLowered(bio_lower) ==
        At(<<CountKw(relevance_keywords, bio_lower), CountKw(NICHE_KEYWORDS, bio_lower)>>,
           score)
  IN  At(IF HasText(bio) THEN LowerText(bio) ELSE <<>>, onLowered)

\* ScoringService() is built with its default weights 0.4 / 0.3 / 0.3
calculate_overall_score(engagement_score, quality_score, relevance_score) ==
  RoundDiv(4 * engagement_score + 3 * quality_score + 3 * relevance_score, 10)

\* classify_tier with the second rule opened to 10K+ followers
classify_tier_posts_from_10k(follower_count, post_count, engagement_rate) ==
  IF follower_count >= 50000 THEN "established"
  ELSE IF follower_count >= 10000 /\ post_count >= 200 THEN "established"
  ELSE IF follower_count >= 10000 /\ engagement_rate >= 30 THEN "established"
  ELSE "emerging"

\* classify_tier(follower_count, post_count, engagement_rate); the rate in
\* tenths of a percent
classify_tier(follower_count, post_count, engagement_rate) ==
  IF follower_count >= 50000 THEN "established"
  ELSE IF follower_count >= 20000 /\ post_count >= 200 THEN "established"
  ELSE IF follower_count >= 10000 /\ engagement_rate >= 30 THEN "established"
  ELSE "emerging"

\* --------------------------------- api/routes/creators.py: normalizers
EmptyDict == <<>>

\* CreatorDict with the confidence of the gender for demographic_confidence
CreatorDictGenderConfidence(r, sc) ==
  [external_id |-> r.external_id,
  name |-> r.name,
  platform |-> r.platform,
  handle |-> r.handle,
  profile_url |-> r.profile_url,
  avatar_url |-> r.avatar_url,
  follower_count |-> r.followers,
  engagement_rate |-> r.engagement_rate,
  bio |-> r.bio,
  niche_tags |-> r.niche_tags,
  estimated_age_range |-> sc.demographics.age_range,
  gender |-> sc.demographics.gender,
  demographic_confidence |-> sc.demographics.gender_confidence,
  engagement_score |-> sc.engagement_score,
  quality_score |-> sc.quality_score,
  relevance_score |-> sc.relevance_score,
  overall_score |-> calculate_overall_score(sc.engagement_score,
                      sc.quality_score, sc.relevance_score)]

\* The dictionary a normalizer returns: r holds what it read from the raw
\* record, sc the demographics and the three scores it computed from r.
CreatorDict(r, sc) ==
  [external_id |-> r.external_id,
  name |-> r.name,
  platform |-> r.platform,
  handle |-> r.handle,
  profile_url |-> r.profile_url,
  avatar_url |-> r.avatar_url,
  follower_count |-> r.followers,
  engagement_rate |-> r.engagement_rate,
  bio |-> r.bio,
  niche_tags |-> r.niche_tags,
  estimated_age_range |-> sc.demographics.age_range,
  gender |-> sc.demographics.gender,
  demographic_confidence |-> sc.demographics.age_confidence,
  engagement_score |-> sc.engagement_score,
  quality_score |-> sc.quality_score,
  relevance_score |-> sc.relevance_score,
  overall_score |-> calculate_overall_score(sc.engagement_score,
                      sc.quality_score, sc.relevance_score)]

\* _parse_modash_creator(raw, platform, target_niche)
parse_modash_creator(raw, platform, target_niche) ==
  LET scored(r) ==
        At([demographics |-> enrich_creator_demographics(r.bio, r.api_gender,
                                                         r.api_age, <<>>),
            engagement_score |-> calculate_engagement_score(r.engagement_rate, platform),
            quality_score |-> calculate_quality_score(r.followers, r.engagement_rate,
                                r.post_count, r.avg_likes, r.avg_comments),
            relevance_score |-> calculate_relevance_score(r.bio, r.niche_tags,
                                                          target_niche)],
           LAMBDA sc : CreatorDict(r, sc))
      read(profile) ==
        At([external_id |-> Get(raw, "userId", ""),
            name |-> Get(profile, "fullname", <<>>),
            platform |-> platform,
            handle |-> Get(profile, "username", ""),
            profile_url |-> Get(profile, "url", ""),
            avatar_url |-> Get(profile, "picture", ""),
            bio |-> Get(profile, "bio", <<>>),
            engagement_rate |-> Get(profile, "engagementRate", 0),
            followers |-> Get(profile, "followers", 0),
            niche_tags |-> Get(profile, "interests", <<>>),
            api_gender |-> IF Truthy(Get(profile, "gender", None))
                             THEN Lower(Get(profile, "gender", "")) ELSE None,
            api_age |-> Get(profile, "age", None),
            post_count |-> Get(profile, "postCount", 0),
            avg_likes |-> Get(profile, "avgLikes", 0),
            avg_comments |-> Get(profile, "avgComments", 0)], scored)
  IN  At(Get(raw, "profile", EmptyDict), read)

\* _parse_phyllo_creator(raw, target_niche)
parse_phyllo_creator(raw, target_niche) ==
  LET scored(r) ==
        At([demographics |-> enrich_creator_demographics(r.bio, None, None, <<>>),
            engagement_score |-> calculate_engagement_score(r.engagement_rate,
                                                            r.platform),
            quality_score |-> calculate_quality_score(r.followers, r.engagement_rate,
                                                      r.post_count, 0, 0),
            relevance_score |-> calculate_relevance_score(r.bio, r.niche_tags,
                                                          target_niche)],
           LAMBDA sc : CreatorDict(r, sc))
  IN  At([external_id |-> Get(raw, "id", ""),
          name |-> Get(raw, "name", <<>>),
          platform |-> Get(raw, "platform", "facebook"),
          handle |-> Get(raw, "username", ""),
          profile_url |-> Get(raw, "profile_url", ""),
          avatar_url |-> Get(raw, "avatar_url", ""),
          bio |-> Get(raw, "bio", <<>>),
          engagement_rate |-> Get(raw, "engagement_rate", 0),
          followers |-> Get(raw, "followers", 0),
          niche_tags |-> << Get(raw, "category", "") >>,
          post_count |-> Get(raw, "post_count", 0)], scored)

\* _parse_twitter_creator and _parse_tiktok_creator differ only in the platform
parse_scraped_creator(raw, platform, target_niche) ==
  LET scored(r) ==
        At([demographics |-> enrich_creator_demographics(r.bio, None, None, r.name),
            engagement_score |-> calculate_engagement_score(r.engagement_rate, platform),
            quality_score |-> calculate_quality_score(r.followers, r.engagement_rate,
                                                      r.post_count, 0, 0),
            relevance_score |-> calculate_relevance_score(r.bio, r.niche_tags,
                                                          target_niche)],
           LAMBDA sc : CreatorDict(r, sc))
      read(profile) ==
        At([external_id |-> Get(raw, "userId", ""),
            name |-> Get(profile, "fullname", <<>>),
            platform |-> platform,
            handle |-> Get(profile, "username", ""),
            profile_url |-> Get(profile, "url", ""),
            avatar_url |-> Get(profile, "picture", ""),
            bio |-> Get(profile, "bio", <<>>),
            engagement_rate |-> Get(profile, "engagementRate", 0),
            followers |-> Get(profile, "followers", 0),
            niche_tags |-> Get(profile, "interests", <<>>),
            post_count |-> Get(profile, "postCount", 0)], scored)
  IN  At(Get(raw, "profile", EmptyDict), read)

parse_twitter_creator(raw, target_niche) == parse_scraped_creator(raw, "twitter", target_niche)

parse_tiktok_creator(raw, target_niche) == parse_scraped_creator(raw, "tiktok", target_niche)

\* [f(c) for c in raw_creators]
MapSeq(s, f(_)) == [i \in DOMAIN s |-> f(s[i])]

\* _enrich_with_cross_platform(creators): found is the set of handles for which
\* the profile finder returns a non-empty list; a lookup that raises is skipped
CrossProfiles == << [platform |-> "instagram", url |-> "https://www.instagram.com/"] >>

enrich_with_cross_platform(creators, found) ==
  [i \in DOMAIN creators |->
     IF Truthy(Get(creators[i], "handle", "")) /\ creators[i].handle \in found
       THEN [cross_platform_profiles |-> CrossProfiles] @@ creators[i]
       ELSE creators[i]]

\* ------------------------------------ search_creators: filter and sort
\* the characters of the age-range strings of the model
Chars(s) ==
  CASE s = "40-44" -> <<"4", "0", "-", "4", "4">>
    [] s = "45-49" -> <<"4", "5", "-", "4", "9">>
    [] s = "50-54" -> <<"5", "0", "-", "5", "4">>
    [] s = "55-59" -> <<"5", "5", "-", "5", "9">>
    [] s = "60-64" -> <<"6", "0", "-", "6", "4">>
    [] s = "40-49" -> <<"4", "0", "-", "4", "9">>
    [] s = "45-54" -> <<"4", "5", "-", "5", "4">>
    [] s = "50-59" -> <<"5", "0", "-", "5", "9">>
    [] s = "55-60" -> <<"5", "5", "-", "6", "0">>
    [] s = "25-34" -> <<"2", "5", "-", "3", "4">>
    [] s = "65+"   -> <<"6", "5", "+">>
    [] s = "50"    -> <<"5", "0">>
    [] s = "40s"   -> <<"4", "0", "s">>
    [] s = "-45"   -> <<"-", "4", "5">>
    [] OTHER       -> <<>>

DigitVal(c) ==
  CASE c = "0" -> 0 [] c = "1" -> 1 [] c = "2" -> 2 [] c = "3" -> 3 [] c = "4" -> 4
    [] c = "5" -> 5 [] c = "6" -> 6 [] c = "7" -> 7 [] c = "8" -> 8 [] c = "9" -> 9
    [] OTHER -> -1

\* str.replace("+", "-999")
RECURSIVE ReplacePlus(_)
ReplacePlus(cs) ==
  IF cs = <<>> THEN <<>>
  ELSE (IF Head(cs) = "+" THEN <<"-", "9", "9", "9">> ELSE <<Head(cs)>>)
       \o ReplacePlus(Tail(cs))

\* str.split("-"): the parts between the separators, empty parts included
RECURSIVE SplitDash(_, _)
SplitDash(cs, cur) ==
  IF cs = <<>> THEN <<cur>>
  ELSE IF Head(cs) = "-" THEN <<cur>> \o SplitDash(Tail(cs), <<>>)
  ELSE SplitDash(Tail(cs), Append(cur, Head(cs)))

\* int(part): the value of a non-empty string of digits, -1 for ValueError
RECURSIVE IntAcc(_, _)
IntAcc(cs, acc) ==
  IF cs = <<>> THEN acc
  ELSE IF DigitVal(Head(cs)) < 0 THEN -1
  ELSE IntAcc(Tail(cs), 10 * acc + DigitVal(Head(cs)))

ParseInt(cs) == IF cs = <<>> THEN -1 ELSE IntAcc(cs, 0)

\* age_range.replace("+", "-999").split("-")
AgeParts(age_range) == SplitDash(ReplacePlus(Chars(age_range)), <<>>)

\* the same, computed once for the age ranges the inference and the catalogs
\* of the model produce
KnownAgeRanges ==
  {"40-44", "45-49", "50-54", "55-59", "60-64", "40-49", "45-54", "50-59",
   "55-60", "25-34", "65+", "50", "40s", "-45"}

KnownAgeParts == [a \in KnownAgeRanges |-> AgeParts(a)]

\* AgePasses that asks for the range to lie within [age_min, age_max]
AgePassesContained(c, age_min, age_max) ==
  LET age_range == Get(c, "estimated_age_range", None)
  IN  IF Truthy(age_range)
        THEN LET parts == IF age_range \in KnownAgeRanges
                            THEN KnownAgeParts[age_range]
                            ELSE AgeParts(age_range)
                 lo == ParseInt(parts[1])
                 hi == IF Len(parts) > 1 THEN ParseInt(parts[2]) ELSE lo + 9
             IN  IF lo < 0 \/ hi < 0 THEN TRUE
                 ELSE lo >= age_min /\ hi <= age_max
        ELSE TRUE

\* calculate_relevance_score, the audience loop for one bucket: does the
\* bucket's weight count?  (a code that does not parse is skipped)
BucketOverlaps(code, target_age_min, target_age_max) ==
  LET parts == IF code \in KnownAgeRanges THEN KnownAgeParts[code]
               ELSE AgeParts(code)
      bucket_min == ParseInt(parts[1])
      bucket_max == IF Len(parts) > 1 THEN ParseInt(parts[2]) ELSE 999
  IN  IF bucket_min < 0 \/ bucket_max < 0 THEN FALSE
      ELSE bucket_min <= target_age_max /\ bucket_max >= target_age_min

\* AgePasses that drops a record without an age range
AgePassesKnownOnly(c, age_min, age_max) ==
  LET age_range == Get(c, "estimated_age_range", None)
  IN  IF Truthy(age_range)
        THEN LET parts == IF age_range \in KnownAgeRanges
                            THEN KnownAgeParts[age_range]
                            ELSE AgeParts(age_range)
                 lo == ParseInt(parts[1])
                 hi == IF Len(parts) > 1 THEN ParseInt(parts[2]) ELSE lo + 9
             IN  IF lo < 0 \/ hi < 0 THEN TRUE
                 ELSE lo <= age_max /\ hi >= age_min
        ELSE FALSE

\* the body of the age loop for one record: is c appended to filtered?
AgePasses(c, age_min, age_max) ==
  LET age_range == Get(c, "estimated_age_range", None)
  IN  IF Truthy(age_range)
        THEN LET parts == IF age_range \in KnownAgeRanges
                            THEN KnownAgeParts[age_range]
                            ELSE AgeParts(age_range)
                 lo == ParseInt(parts[1])
                 hi == IF Len(parts) > 1 THEN ParseInt(parts[2]) ELSE lo + 9
             IN  IF lo < 0 \/ hi < 0 THEN TRUE
                 ELSE lo <= age_max /\ hi >= age_min
        ELSE TRUE

\* GenderPasses with the lenient test in both modes
GenderPassesLenient(c, gender, is_live_scraper) ==
  LET g == Get(c, "gender", None)
      lowered == IF Truthy(g) THEN Lower(g) ELSE ""
  IN  g = None \/ lowered = Lower(gender)

\* the gender test of one record
GenderPasses(c, gender, is_live_scraper) ==
  LET g == Get(c, "gender", None)
      lowered == IF Truthy(g) THEN Lower(g) ELSE ""
  IN  IF is_live_scraper
        THEN lowered = Lower(gender)
        ELSE g = None \/ lowered = Lower(gender)

\* [c for c in s if P(c)]
FilterSeq(s, P(_)) ==
  LET F[i \in 0..Len(s)] ==
        IF i = 0 THEN <<>>
        ELSE IF P(s[i]) THEN Append(F[i - 1], s[i]) ELSE F[i - 1]
  IN  F[Len(s)]

\* x put into a list sorted in descending key order, after the elements whose
\* key is not smaller
InsertDesc(sorted, x, key(_)) ==
  LET put(p) == SubSeq(sorted, 1, p) \o <<x>> \o SubSeq(sorted, p + 1, Len(sorted))
  IN  At(Cardinality({ i \in 1..Len(sorted) : key(sorted[i]) >= key(x) }), put)

\* list.sort(key=..., reverse=True): stable, descending
SortDesc(s, key(_)) ==
  LET S[i \in 0..Len(s)] ==
        IF i = 0 THEN <<>>
        ELSE At(S[i - 1], LAMBDA sorted : InsertDesc(sorted, s[i], key))
  IN  S[Len(s)]

\* s from its last element to its first
Reverse(s) == [i \in 1..Len(s) |-> s[Len(s) + 1 - i]]

\* FilterAndSort with the sort in ascending order
FilterAndSortAscending(creators, req, is_live_scraper) ==
  LET byGender(c) == GenderPasses(c, req.gender, is_live_scraper)
      byAge(c) == AgePasses(c, req.age_min, req.age_max)
      key(c) == Get(c, req.sort_by, 0)
      sort(filtered) == Reverse(SortDesc(filtered, key))
      ageFilter(filtered) == At(FilterSeq(filtered, byAge), sort)
  IN  At(IF Truthy(req.gender) THEN FilterSeq(creators, byGender) ELSE creators,
         ageFilter)

\* FilterAndSort with the strictness decided record by record: strict for the
\* records of the live scrapers only
FilterAndSortPerSource(creators, req, is_live_scraper) ==
  LET byGender(c) == GenderPasses(c, req.gender,
                                  is_live_scraper /\ c.platform \in {"twitter", "tiktok"})
      byAge(c) == AgePasses(c, req.age_min, req.age_max)
      key(c) == Get(c, req.sort_by, 0)
      sort(filtered) == SortDesc(filtered, key)
      ageFilter(filtered) == At(FilterSeq(filtered, byAge), sort)
  IN  At(IF Truthy(req.gender) THEN FilterSeq(creators, byGender) ELSE creators,
         ageFilter)

\* filter by gender, then by age, then sort: the list `filtered` of search_creators
FilterAndSort(creators, req, is_live_scraper) ==
  LET byGender(c) == GenderPasses(c, req.gender, is_live_scraper)
      byAge(c) == AgePasses(c, req.age_min, req.age_max)
      key(c) == Get(c, req.sort_by, 0)
      sort(filtered) == SortDesc(filtered, key)
      ageFilter(filtered) == At(FilterSeq(filtered, byAge), sort)
  IN  At(IF Truthy(req.gender) THEN FilterSeq(creators, byGender) ELSE creators,
         ageFilter)

\* ------------------------------------------------ the external sources
\* What the Twitter service hands to _search_twitter (TwitterService
\* ._search_via_api builds these dictionaries, one per user id).
TwitterUsers ==
  { [userId |-> "twitter_1",
     profile |-> [fullname |-> <<"Sarah", "Lee">>, username |-> "sarahlee",
                  url |-> "https://twitter.com/sarahlee", picture |-> "",
                  bio |-> <<"UGC", "creator", "|", "Mom", "of", "3">>,
                  followers |-> 12000, following |-> 300, engagementRate |-> 15,
                  postCount |-> 900, interests |-> <<"lifestyle", "parenting">>]],
    [userId |-> "twitter_2",
     profile |-> [fullname |-> <<"Alex", "Kim">>, username |-> "alexkim",
                  url |-> "https://twitter.com/alexkim", picture |-> "",
                  bio |-> <<"Gen", "X", "reviewer">>,
                  followers |-> 8000, following |-> 100, engagementRate |-> 10,
                  postCount |-> 120, interests |-> <<"ugc">>]] }

\* What the TikTok service hands to _search_tiktok.
TikTokUsers ==
  { [userId |-> "tiktok_1",
     profile |-> [fullname |-> <<"Nana", "B">>, username |-> "nanab",
                  url |-> "https://www.tiktok.com/@nanab", picture |-> "",
                  bio |-> <<"Grandma", "|", "honest", "reviews">>,
                  followers |-> 30000, following |-> 10, engagementRate |-> 62,
                  postCount |-> 60, interests |-> <<"ugc">>]] }

\* Entries of the "lookalikes" list of the discovery API's answer.
ModashUsers ==
  { [userId |-> "ig_1",
     profile |-> [fullname |-> <<"Jen", "Doe">>, username |-> "jendoe",
                  url |-> "https://instagram.com/jendoe", picture |-> "",
                  bio |-> <<"UGC", "creator">>, followers |-> 45000,
                  engagementRate |-> 42, gender |-> "FEMALE", age |-> "45-54",
                  interests |-> <<"beauty">>]],
    [userId |-> "ig_1",
     profile |-> [fullname |-> <<"Jen", "Doe">>, username |-> "jendoe",
                  url |-> "https://instagram.com/jendoe", picture |-> "",
                  bio |-> <<"UGC", "creator">>, followers |-> 46000,
                  engagementRate |-> 50, gender |-> "FEMALE", age |-> "65+",
                  interests |-> <<"beauty">>]],
    [userId |-> "ig_2",
     profile |-> [fullname |-> <<"Sam", "Roe">>, username |-> "samroe",
                  url |-> "https://instagram.com/samroe", picture |-> "",
                  bio |-> <<"creator">>, followers |-> 20000,
                  engagementRate |-> 30, gender |-> "Male", age |-> "45-54",
                  interests |-> <<"fitness">>]],
    [userId |-> "ig_2",
     profile |-> [username |-> "samroe", bio |-> <<"Gen", "X", "creator">>,
                  followers |-> 21000, engagementRate |-> 20]] }

\* Entries of the "creators" list of the secondary API's answer.
PhylloUsers ==
  { [id |-> "fb_1", name |-> <<"Pat", "Poe">>, username |-> "patpoe",
     platform |-> "facebook", profile_url |-> "https://facebook.com/patpoe",
     avatar_url |-> "", bio |-> <<"crafts", "and", "recipes">>,
     followers |-> 22000, engagement_rate |-> 31, category |-> "crafts"] }

\* the lists of at most n elements of S
SeqsUpTo(S, n) == UNION { [1..k -> S] : k \in 0..n }

NoDup(s) == \A i, j \in DOMAIN s : i # j => s[i] # s[j]

Min3(a, b, c) == Min(a, Min(b, c))

\* ModashService._mock_search(platform, niche, limit): the first entries of the
\* fixed list, cut to limit (the model keeps the first three of the list)
modash_mock_search(platform, limit) ==
  LET entry(i, name, handle, bio, followers, eng_rate, age_range, interests) ==
        [userId |-> "mock_" \o platform \o "_" \o ToString(i),
         profile |-> [fullname |-> name, username |-> handle,
                      url |-> "https://" \o platform \o ".com/" \o handle,
                      picture |-> "https://i.pravatar.cc/150?u=" \o handle,
                      bio |-> bio, followers |-> followers,
                      engagementRate |-> eng_rate, gender |-> "FEMALE",
                      age |-> age_range, interests |-> interests]]
      mock_creators ==
        << entry(0, <<"Sarah", "Mitchell">>, "sarahmitchell_life",
                 <<"UGC", "creator", "|", "Mom", "of", "3", "|", "Wellness",
                   "advocate", "|", "Born", "1978", "|", "Honest", "product",
                   "reviews">>, 45000, 42, "45-54", <<"wellness", "lifestyle">>),
           entry(1, <<"Jennifer", "Adams">>, "jenadams_beauty",
                 <<"UGC", "content", "creator", "for", "beauty", "brands", "|",
                   "Skincare", "for", "women", "over", "40", "|", "DM", "for",
                   "collabs">>, 82000, 51, "40-49", <<"beauty">>),
           entry(2, <<"Lisa", "Thompson">>, "lisathompson_home",
                 <<"UGC", "creator", "|", "Home", "decor", "|", "DIY",
                   "enthusiast", "|", "Empty", "nester", "|", "Honest",
                   "unboxing", "videos">>, 31000, 38, "50-59", <<"home">>) >>
  IN  [lookalikes |-> SubSeq(mock_creators, 1, Min(limit, Len(mock_creators))),
       total |-> Len(mock_creators), page |-> 0]

\* PhylloService._mock_search(platform, niche, limit) with niche unset
phyllo_mock_search(platform, limit) ==
  LET mock_creators ==
        << [id |-> "mock_" \o platform \o "_fb1", name |-> <<"Susan", "Baker">>,
            username |-> "susanbaker_crafts", platform |-> platform,
            profile_url |-> "https://" \o platform \o ".com/susanbaker_crafts",
            avatar_url |-> "https://i.pravatar.cc/150?u=susanbaker",
            bio |-> <<"Crafting", "queen", "|", "Mom", "life", "|", "48", "years",
                      "young">>,
            followers |-> 22000, engagement_rate |-> 31, category |-> "lifestyle"],
           [id |-> "mock_" \o platform \o "_fb2", name |-> <<"Deborah", "Hayes">>,
            username |-> "debhayes_pins", platform |-> platform,
            profile_url |-> "https://" \o platform \o ".com/debhayes_pins",
            avatar_url |-> "https://i.pravatar.cc/150?u=debhayes",
            bio |-> <<"Pin-spiration", "for", "women", "40+", "|", "Interior",
                      "design", "|", "Recipes">>,
            followers |-> 35000, engagement_rate |-> 45, category |-> "home"] >>
  IN  [creators |-> SubSeq(mock_creators, 1, Min(limit, Len(mock_creators))),
       total |-> Len(mock_creators)]

\* ------------------------------------------------------------- state
VARIABLES
  cfg,    \* Settings: which sources have a key / are enabled
  db,     \* the creators table: a bag of rows (the surrogate key id is left out)
  seen,   \* the seen ledger of the data model
  clock,  \* time of the latest search
  call,   \* the search request being answered, its locals and its response
  probe,  \* the latest call of a function of the services, with its result
  twitter, \* the TwitterService instance and the search it is running
  batch,  \* the TikTok profile enrichment batch in progress
  links   \* the campaign_creators table and the requests on it in progress

vars == <<cfg, db, seen, clock, call, probe, twitter, batch, links>>

\* a part of the program that takes no part in the behaviours of a specification
Unused == [pc |-> "unused"]

\* ------------------------------------------------- models/creator.py
\* Column defaults of Creator for the columns no normalizer supplies
ColumnDefaults ==
  [following_count |-> 0, avg_likes |-> 0, avg_comments |-> 0, avg_views |-> 0,
   post_count |-> 0, audience_demographics |-> EmptyDict]

\* Creator(**db_data) at the time now: last_updated takes its default
NewCreator(db_data, now) == db_data @@ ColumnDefaults @@ [last_updated |-> now]

\* RowsWith with the lookup on the wrong column
RowsWithHandle(store, external_id) ==
  { r \in BagToSet(store) : r.handle = external_id }

RowsWith(store, external_id) ==
  { r \in BagToSet(store) : r.external_id = external_id }

\* more than one row with this external_id
MultipleRows(store, external_id) ==
  LET rows == RowsWith(store, external_id)
  IN  Cardinality(rows) > 1 \/ \E r \in rows : CopiesIn(r, store) > 1

\* INSERT under the unique index on external_id: the new store, or an
\* IntegrityError
InsertRow(store, row) ==
  IF \E r \in BagToSet(store) : r.external_id = row.external_id
    THEN [ok |-> FALSE, store |-> store]
    ELSE [ok |-> TRUE, store |-> store (+) SetToBag({row})]

\* UpdatedRow with the test on the key inverted
UpdatedRowInverted(existing, c) ==
  LET keys == DOMAIN c \cap {"cross_platform_profiles"}
  IN  [k \in DOMAIN existing |-> IF k \in keys THEN c[k] ELSE existing[k]]

\* for key, val in c.items(): if key != "cross_platform_profiles": setattr(...)
UpdatedRow(existing, c) ==
  LET keys == DOMAIN c \ {"cross_platform_profiles"}
  IN  [k \in DOMAIN existing |-> IF k \in keys THEN c[k] ELSE existing[k]]

\* {k: v for k, v in c.items() if k != "cross_platform_profiles"}
DbData(c) == [k \in DOMAIN c \ {"cross_platform_profiles"} |-> c[k]]

\* SaveOne without the lookup: every record is added
SaveOneInsert(st, c, now) ==
  IF ~st.ok THEN st
  ELSE At(NewCreator(DbData(c), now), LAMBDA row : InsertRow(st.store, row))

\* one turn of the save loop: select by external_id (the session flushes its
\* pending rows before a query, so rows added earlier in the loop are found),
\* then update the row found or add a new one
SaveOne(st, c, now) ==
  LET update(existing) ==
        [ok |-> TRUE,
         store |-> (st.store (-) SetToBag({existing}))
                   (+) SetToBag({UpdatedRow(existing, c)})]
      save(found) ==
        IF MultipleRows(st.store, c.external_id)
          THEN [ok |-> FALSE, store |-> st.store]   \* scalar_one_or_none raises
        ELSE IF found # {} THEN At(CHOOSE r \in found : TRUE, update)
        ELSE At(NewCreator(DbData(c), now), LAMBDA row : InsertRow(st.store, row))
  IN  IF ~st.ok THEN st ELSE At(RowsWith(st.store, c.external_id), save)

\* Reconcile on an emptied table: the rows of earlier searches are deleted
ReconcileReplace(store, filtered, now) ==
  LET S[i \in 0..Len(filtered)] ==
        IF i = 0 THEN [ok |-> TRUE, store |-> EmptyBag]
        ELSE At(S[i - 1], LAMBDA st : SaveOne(st, filtered[i], now))
      commit(st) == IF st.ok THEN st ELSE [ok |-> FALSE, store |-> store]
  IN  At(S[Len(filtered)], commit)

\* the save loop and the commit: the store after it, or a failure that rolls
\* every write of the request back
Reconcile(store, filtered, now) ==
  LET S[i \in 0..Len(filtered)] ==
        IF i = 0 THEN [ok |-> TRUE, store |-> store]
        ELSE At(S[i - 1], LAMBDA st : SaveOne(st, filtered[i], now))
      commit(st) == IF st.ok THEN st ELSE [ok |-> FALSE, store |-> store]
  IN  At(S[Len(filtered)], commit)

\* --------------------------------------------- what a source answers
\* The answer of one remote source to one request: a list of raw records, or
\* an exception (raised = ~ok); called = FALSE when the source is not asked.
Answer(users) == [called |-> TRUE, ok |-> TRUE, users |-> users]
Raised == [called |-> TRUE, ok |-> FALSE, users |-> <<>>]
NotAsked == [called |-> FALSE, ok |-> TRUE, users |-> <<>>]

\* TwitterService.search_creators: ids are deduplicated, at most max_results
TwitterAnswers ==
  {Raised} \cup { Answer(l) : l \in { s \in SeqsUpTo(TwitterUsers, MaxFetch) : NoDup(s) } }

\* TikTokService.search_creators: at most max_results; every failure of the
\* browser is caught and answered with an empty list.  The probe's users are
\* remembered by uid and the queries' users by userId, so that a user can be
\* listed twice: once from the probe and once from the queries.
TikTokAnswers ==
  { Answer(l) : l \in { s \in SeqsUpTo(TikTokUsers, MaxFetch) :
                          \A u \in TikTokUsers :
                            Cardinality({ i \in DOMAIN s : s[i] = u }) <= 2 } }

\* the discovery API and the secondary API, asked for at most page_size
ModashAnswers == {Raised} \cup { Answer(l) : l \in SeqsUpTo(ModashUsers, MaxFetch) }

PhylloAnswers == {Raised} \cup { Answer(l) : l \in SeqsUpTo(PhylloUsers, MaxFetch) }

\* modash_search_creators without the branch for a missing key
modash_search_creators_api(platform, page_size, api) ==
  IF api.ok THEN [ok |-> TRUE, data |-> [lookalikes |-> api.users]]
  ELSE [ok |-> FALSE, data |-> EmptyDict]

\* ModashService.search_creators: mock data without a key, else the API's
\* answer; raise_for_status and transport errors propagate
modash_search_creators(platform, page_size, api) ==
  IF ~cfg.modash THEN [ok |-> TRUE, data |-> modash_mock_search(platform, page_size)]
  ELSE IF api.ok THEN [ok |-> TRUE, data |-> [lookalikes |-> api.users]]
  ELSE [ok |-> FALSE, data |-> EmptyDict]

\* PhylloService.search_creators
phyllo_search_creators(platform, page_size, api) ==
  IF ~cfg.phyllo THEN [ok |-> TRUE, data |-> phyllo_mock_search(platform, page_size)]
  ELSE IF api.ok THEN [ok |-> TRUE, data |-> [creators |-> api.users]]
  ELSE [ok |-> FALSE, data |-> EmptyDict]

\* ------------------------------------- search_creators: the dispatch
Failed == [ok |-> FALSE, creators |-> <<>>, is_live_scraper |-> FALSE]

\* The normalizers on the records the sources of the model can return, with
\* target_niche = None as in every request of the model.  The handler below
\* takes the normalizers from this table (its parameter norm), so that a record
\* is normalized once however often it is fetched.
Range(s) == { s[i] : i \in DOMAIN s }

ModashRecords ==
  ModashUsers \cup Range(modash_mock_search("instagram", MaxFetch).lookalikes)
              \cup Range(modash_mock_search("tiktok", MaxFetch).lookalikes)

PhylloRecords ==
  PhylloUsers \cup Range(phyllo_mock_search("facebook", MaxFetch).creators)

Normalizers ==
  [modash |-> [label \in {"twitter", "tiktok", "instagram", "youtube"} |->
                 [c \in ModashRecords |-> parse_modash_creator(c, label, None)]],
   phyllo |-> [c \in PhylloRecords |-> parse_phyllo_creator(c, None)],
   scraped |-> [platform \in {"twitter", "tiktok"} |->
                  [c \in TwitterUsers \cup TikTokUsers |->
                     parse_scraped_creator(c, platform, None)]]]

\* creators = [_parse_modash_creator(c, label, niche) for c in raw_creators]
ViaModash(req, f, platform, label, norm) ==
  LET parse(c) == norm.modash[label][c]
      normalize(raw_creators) ==
        [ok |-> TRUE, creators |-> MapSeq(raw_creators, parse), is_live_scraper |-> FALSE]
      answered(r) ==
        IF ~r.ok THEN Failed ELSE At(Get(r.data, "lookalikes", <<>>), normalize)
  IN  At(modash_search_creators(platform, req.page_size, f.modash), answered)

\* creators = [_parse_phyllo_creator(c, niche) for c in raw_creators]
ViaPhyllo(req, f, platform, norm) ==
  LET parse(c) == norm.phyllo[c]
      normalize(raw_creators) ==
        [ok |-> TRUE, creators |-> MapSeq(raw_creators, parse), is_live_scraper |-> FALSE]
      answered(r) ==
        IF ~r.ok THEN Failed ELSE At(Get(r.data, "creators", <<>>), normalize)
  IN  At(phyllo_search_creators(platform, req.page_size, f.phyllo), answered)

\* _search_twitter / _search_tiktok on the service's answer
search_twitter(req, f, norm) ==
  LET parse(c) == norm.scraped["twitter"][c]
  IN  MapSeq(f.twitter.users, parse)

search_tiktok(req, f, norm) ==
  LET parse(c) == norm.scraped["tiktok"][c]
  IN  MapSeq(f.tiktok.users, parse)

\* extend_all with the discovery API's records put first
extend_all_insta_first(twitter_creators, tiktok_creators, insta_creators) ==
  insta_creators \o twitter_creators \o tiktok_creators

\* platform == "all": creators.extend(...) for Twitter, then TikTok, then the
\* discovery API's Instagram records
extend_all(twitter_creators, tiktok_creators, insta_creators) ==
  twitter_creators \o tiktok_creators \o insta_creators

\* the if / elif chain on platform.lower()
Dispatch(req, f, norm) ==
  LET p == Lower(req.platform)
      discovery(platform, label) == ViaModash(req, f, platform, label, norm)
      twitter_creators == search_twitter(req, f, norm)
      tiktok_creators == IF cfg.tiktok THEN search_tiktok(req, f, norm) ELSE <<>>
      \* platform == "tiktok", after the scraper
      afterTikTok(found) ==
        IF cfg.tiktok /\ ~f.tiktok.ok THEN Failed
        ELSE IF found # <<>>
          THEN [ok |-> TRUE, creators |-> found, is_live_scraper |-> TRUE]
        ELSE discovery("tiktok", "tiktok")
      \* platform == "all": v = <<twitter, tiktok, instagram>> parts
      collected(v) ==
        IF cfg.twitter /\ ~f.twitter.ok THEN Failed
        ELSE IF cfg.tiktok /\ ~f.tiktok.ok THEN Failed
        ELSE IF ~v[3].ok THEN Failed
        ELSE [ok |-> TRUE,
              creators |-> extend_all(v[1], v[2], v[3].creators),
              is_live_scraper |-> cfg.twitter \/ v[2] # <<>>]
  IN  CASE p = "twitter" ->
             IF cfg.twitter
               THEN IF ~f.twitter.ok THEN Failed
                    ELSE [ok |-> TRUE, creators |-> twitter_creators,
                          is_live_scraper |-> TRUE]
               ELSE discovery("instagram", "twitter")
        [] p = "tiktok" -> At(tiktok_creators, afterTikTok)
        [] p = "all" ->
             At(<< IF cfg.twitter
                     THEN At(twitter_creators,
                             LAMBDA found : enrich_with_cross_platform(found, f.found))
                     ELSE <<>>,
                   tiktok_creators,
                   discovery("instagram", "instagram") >>, collected)
        [] p \in {"instagram", "youtube"} -> discovery(p, p)
        [] p \in {"facebook", "pinterest"} -> ViaPhyllo(req, f, p, norm)
        [] OTHER -> [ok |-> TRUE, creators |-> <<>>, is_live_scraper |-> FALSE]

\* --------------------------------------------------- inputs of a search
Platforms == {"twitter", "tiktok", "all", "instagram", "facebook"}

Requests ==
  { [platform |-> p, niche |-> None, min_followers |-> 1000, gender |-> d.gender,
     age_min |-> 40, age_max |-> 60, sort_by |-> d.sort_by, page |-> 0,
     page_size |-> MaxFetch, deep_search |-> FALSE, exclude_seen |-> d.exclude_seen] :
    p \in Platforms,
    d \in { [gender |-> "Female", exclude_seen |-> FALSE, sort_by |-> "overall_score"],
            [gender |-> None, exclude_seen |-> TRUE, sort_by |-> "follower_count"],
            [gender |-> None, exclude_seen |-> FALSE, sort_by |-> "popularity"] } }

Handles(users) == { Get(Get(users[i], "profile", EmptyDict), "username", "") : i \in DOMAIN users }

\* the profile finder finds other profiles for none or for all of the handles
Founds(tw) == IF tw.users = <<>> THEN {{}} ELSE {{}, Handles(tw.users)}

Fetch(tw, fd, tk, mo, ph) ==
  [twitter |-> tw, found |-> fd, tiktok |-> tk, modash |-> mo, phyllo |-> ph]

\* what the sources can answer to a request for platform p under the settings
\* c, source by source in the order the handler asks them; a source after a
\* failure is not asked, and neither is a source without a key
FetchesUnder(c, p) ==
  LET twFirst == IF c.twitter THEN TwitterAnswers ELSE {NotAsked}
      tkFirst == IF c.tiktok THEN TikTokAnswers ELSE {NotAsked}
      moAsked == IF c.modash THEN ModashAnswers ELSE {NotAsked}
      room(n) == { a \in moAsked : Len(a.users) <= n }
  IN  CASE p = "twitter" ->
             IF c.twitter
               THEN { Fetch(tw, {}, NotAsked, NotAsked, NotAsked) : tw \in twFirst }
               ELSE { Fetch(NotAsked, {}, NotAsked, mo, NotAsked) : mo \in moAsked }
        [] p = "tiktok" ->
             UNION { IF tk.ok /\ tk.users = <<>>
                       THEN { Fetch(NotAsked, {}, tk, mo, NotAsked) : mo \in moAsked }
                       ELSE { Fetch(NotAsked, {}, tk, NotAsked, NotAsked) } :
                     tk \in tkFirst }
        [] p = "all" ->
             UNION { UNION { UNION {
               IF ~tw.ok \/ ~tk.ok
                 THEN { Fetch(tw, fd, tk, NotAsked, NotAsked) }
                 ELSE { Fetch(tw, fd, tk, mo, NotAsked) :
                        mo \in room(MaxCollected - Len(tw.users) - Len(tk.users)) } :
               tk \in IF ~tw.ok THEN {NotAsked}
                      ELSE { a \in tkFirst :
                             Len(tw.users) + Len(a.users) <= MaxCollected } } :
               fd \in Founds(tw) } :
               tw \in twFirst }
        [] p = "instagram" ->
             { Fetch(NotAsked, {}, NotAsked, mo, NotAsked) : mo \in moAsked }
        [] p = "facebook" ->
             { Fetch(NotAsked, {}, NotAsked, NotAsked, ph) :
               ph \in IF c.phyllo THEN PhylloAnswers ELSE {NotAsked} }

Settings == [twitter : BOOLEAN, tiktok : BOOLEAN, modash : BOOLEAN, phyllo : BOOLEAN]

\* FetchesUnder, computed once
FetchTable ==
  [twitter |-> [c \in Settings |-> FetchesUnder(c, "twitter")],
   tiktok |-> [c \in Settings |-> FetchesUnder(c, "tiktok")],
   all |-> [c \in Settings |-> FetchesUnder(c, "all")],
   instagram |-> [c \in Settings |-> FetchesUnder(c, "instagram")],
   facebook |-> [c \in Settings |-> FetchesUnder(c, "facebook")]]

Fetches(req) == FetchTable[Lower(req.platform)][cfg]

\* --------------------------------------------------- search_creators
NoCall == [status |-> 0]

Idle == call.status = 0

\* Response with the returned records counted as the persisted total
ResponseOfPage(filtered, store, page) ==
  [creators |-> filtered, total |-> Len(filtered),
   db_total |-> Len(filtered), page |-> page]

\* select(func.count()).select_from(Creator) after the commit, and the
\* dictionary the handler returns
Response(filtered, store, page) ==
  [creators |-> filtered, total |-> Len(filtered),
   db_total |-> BagCardinality(store), page |-> page]

\* GET /api/creators/search: dispatch, filter, sort, save, commit, count.
\* An exception of a fetch or of the save loop leaves the handler: the
\* framework answers 500 and the session is closed without a commit.
search_creators(req, f) ==
  /\ \E now \in {clock + 1}, got \in {Dispatch(req, f, Normalizers)} :
       \E filtered \in {FilterAndSort(got.creators, req, got.is_live_scraper)} :
         \E saved \in {Reconcile(db, filtered, now)} :
           LET ok == got.ok /\ saved.ok
           IN  /\ clock' = now
               /\ db' = IF ok THEN saved.store ELSE db
               /\ call' = [status |-> IF ok THEN 200 ELSE 500,
                           req |-> req, fetch |-> f, now |-> now, before |-> db,
                           is_live_scraper |-> got.is_live_scraper,
                           collected |-> got.creators]
                          @@ (IF ok THEN Response(filtered, saved.store, req.page)
                              ELSE Response(<<>>, EmptyBag, req.page))
  /\ UNCHANGED <<cfg, seen, probe, twitter, batch, links>>

\* no function of the services has been called on its own
NoProbe == [fn |-> "none"]

\* the response is sent and the request's locals are dropped
ReturnResponse ==
  /\ ~Idle
  /\ call' = NoCall
  /\ UNCHANGED <<cfg, db, seen, clock, probe, twitter, batch, links>>

Init ==
  /\ cfg \in Settings
  /\ db = EmptyBag
  /\ seen = {}
  /\ clock = 0
  /\ call = NoCall
  /\ probe = NoProbe
  /\ twitter = Unused
  /\ batch = Unused
  /\ links = Unused

\* a client sends a request when none is being answered, and the sources answer
Search ==
  /\ Idle
  /\ clock < MaxTime
  /\ \E req \in Requests : \E f \in Fetches(req) : search_creators(req, f)

Next == Search \/ ReturnResponse

Spec == Init /\ [][Next]_vars

\* ------------------------------------------------------------- claims
\* the rows of a store with an external_id, and the external_ids of a list
Persisted(store, id) == { r \in BagToSet(store) : r.external_id = id }

Ids(creators) == { creators[i].external_id : i \in DOMAIN creators }

StoredIds(store) == { r.external_id : r \in BagToSet(store) }

\* the last record of a list with an external_id: the one the save loop
\* leaves in the store
LastOf(creators, id) ==
  creators[CHOOSE i \in DOMAIN creators :
             /\ creators[i].external_id = id
             /\ \A j \in DOMAIN creators : creators[j].external_id = id => j <= i]

FetchRaised(f) ==
  ~f.twitter.ok \/ ~f.tiktok.ok \/ ~f.modash.ok \/ ~f.phyllo.ok

Answered == call.status = 200

\* C1: no two persisted rows share an external_id; a search that yields a
\* record whose external_id is already persisted (or yields it twice) updates
\* the one row in place: the store grows by exactly the new external_ids, and
\* the save loop never fails on the unique index.
C1_UniqueExternalId ==
  /\ \A r \in BagToSet(db) : CopiesIn(r, db) = 1
  /\ \A r1, r2 \in BagToSet(db) : r1.external_id = r2.external_id => r1 = r2
  /\ Answered =>
       /\ \A id \in Ids(call.creators) : Cardinality(Persisted(db, id)) = 1
       /\ StoredIds(db) = StoredIds(call.before) \cup Ids(call.creators)
       /\ BagCardinality(db) = Cardinality(StoredIds(db))
  /\ call.status = 500 => FetchRaised(call.fetch) /\ db = call.before

\* C1 witness: a search returned the same external_id twice, and an
\* external_id that was persisted before
C1_Witness ==
  /\ Answered
  /\ \E i, j \in DOMAIN call.creators :
       i < j /\ call.creators[i].external_id = call.creators[j].external_id
  /\ Ids(call.creators) \cap StoredIds(call.before) # {}

\* C2: reconciliation is idempotent: after a search has saved its filtered
\* list, running the save loop again with the same list, at any later time,
\* succeeds and leaves the store as it is, rows and field values alike.
C2_ReconcileIdempotent ==
  Answered =>
    \A later \in {call.now, call.now + 1} :
      Reconcile(db, call.creators, later) = [ok |-> TRUE, store |-> db]

\* C2 witness: the search changed a persisted row in place and added a row
C2_Witness ==
  /\ Answered
  /\ \E r \in BagToSet(call.before) :
       /\ r \notin BagToSet(db)
       /\ r.external_id \in Ids(call.creators)
  /\ Ids(call.creators) \ StoredIds(call.before) # {}

\* C3: for every returned record the persisted row carries the value of every
\* field of the last incoming record with that external_id, except the
\* cross-platform annotation, which is no column and is never stored; an
\* external_id not persisted before gets a new row with the column defaults;
\* the columns no incoming record carries (post_count among them) keep the
\* value they had, and rows of other external_ids are untouched.
C3_OverwriteExceptDenylist ==
  Answered =>
    /\ \A id \in Ids(call.creators) :
         \A row \in Persisted(db, id) :
           LET c == LastOf(call.creators, id)
               old == Persisted(call.before, id)
           IN  /\ \A k \in DOMAIN c \ {"cross_platform_profiles"} : row[k] = c[k]
               /\ "cross_platform_profiles" \notin DOMAIN row
               /\ \A k \in DOMAIN ColumnDefaults :
                    /\ old = {} => row[k] = ColumnDefaults[k]
                    /\ \A o \in old : row[k] = o[k]
               /\ old = {} => row.last_updated = call.now
    /\ \A r \in BagToSet(call.before) :
         r.external_id \notin Ids(call.creators) => r \in BagToSet(db)

\* C3 witness: a search overwrote a carried field of a persisted row with a
\* different value, and a returned record carried the cross-platform annotation
C3_Witness ==
  /\ Answered
  /\ \E i \in DOMAIN call.creators :
       \E o \in Persisted(call.before, call.creators[i].external_id) :
         \E k \in DOMAIN call.creators[i] \ {"cross_platform_profiles"} :
           /\ o[k] # call.creators[i][k]
           /\ Persisted(db, o.external_id) # {o}
  /\ \E i \in DOMAIN call.creators :
       "cross_platform_profiles" \in DOMAIN call.creators[i]

\* C4: last_updated is set on every write: after a search, the row of every
\* returned record, inserted or updated, has last_updated equal to the time of
\* that search.
C4_LastUpdatedOnEveryWrite ==
  Answered =>
    \A id \in Ids(call.creators) :
      \A row \in Persisted(db, id) : row.last_updated = call.now

\* C5: with exclude_seen requested, every record a search returns has been
\* added to the seen ledger (so that a later search can leave it out).
C5_ExcludeSeen ==
  (Answered /\ call.req.exclude_seen) => Ids(call.creators) \subseteq seen

\* C6: in a search with platform=all, an exception raised by the fetch of one
\* platform does not abort the search: the caller receives a success result.
C6_AllSurvivesFetchFailure ==
  (call.status # 0 /\ Lower(call.req.platform) = "all" /\ FetchRaised(call.fetch))
    => call.status = 200

\* the external_ids the remote sources of the model can answer, and the
\* external_ids of the built-in mock records
ApiIds ==
  [twitter |-> { u.userId : u \in TwitterUsers },
   tiktok |-> { u.userId : u \in TikTokUsers },
   modash |-> { u.userId : u \in ModashUsers },
   phyllo |-> { u.id : u \in PhylloUsers }]

ModashMockIds(platform, limit) ==
  [i \in 1..Min(limit, 3) |-> "mock_" \o platform \o "_" \o ToString(i - 1)]

PhylloMockIds(platform, limit) ==
  [i \in 1..Min(limit, 2) |-> "mock_" \o platform \o "_fb" \o ToString(i)]

IdSeq(creators) == [i \in DOMAIN creators |-> creators[i].external_id]

\* C7 as stated: a source without a key contributes zero records, so that
\* every record a search returns or persists was answered by the remote API of
\* a configured source, and the search succeeds.
C7_UnconfiguredContributesNothing ==
  call.status # 0 =>
    /\ (\A s \in DOMAIN cfg : cfg[s] => call.fetch[s].ok) => Answered
    /\ \A id \in Ids(call.creators) \cup StoredIds(db) :
         \E s \in DOMAIN cfg : cfg[s] /\ id \in ApiIds[s]

\* C7 amended: a source without a key never makes a search fail, and no record
\* of a remote API comes from it; the scrapers (Twitter, TikTok) without a key
\* contribute nothing, while the discovery API and the secondary API without a
\* key contribute their built-in mock records, in the list's order and cut to
\* page_size, which are collected like any other record; with a key no mock
\* record is collected.
C7_UnconfiguredSource ==
  call.status # 0 =>
    LET p == Lower(call.req.platform)
        ids == Ids(call.collected) \cup StoredIds(db)
        n == call.req.page_size
    IN  /\ call.status = 500 => \E s \in DOMAIN cfg : cfg[s] /\ ~call.fetch[s].ok
        /\ \A s \in DOMAIN cfg : ~cfg[s] => ids \cap ApiIds[s] = {}
        /\ \A id \in ids :
             \/ \E s \in DOMAIN cfg : cfg[s] /\ id \in ApiIds[s]
             \/ ~cfg.modash /\ \E q \in {"instagram", "tiktok"} :
                                 id \in Range(ModashMockIds(q, MaxFetch))
             \/ ~cfg.phyllo /\ id \in Range(PhylloMockIds("facebook", MaxFetch))
        /\ (~cfg.modash /\ p = "instagram") =>
             Answered /\ IdSeq(call.collected) = ModashMockIds("instagram", n)
        /\ (~cfg.modash /\ ~cfg.twitter /\ p = "twitter") =>
             Answered /\ IdSeq(call.collected) = ModashMockIds("instagram", n)
        /\ (~cfg.modash /\ ~cfg.tiktok /\ p = "tiktok") =>
             Answered /\ IdSeq(call.collected) = ModashMockIds("tiktok", n)
        /\ (~cfg.modash /\ p = "all" /\ Answered) =>
             Range(ModashMockIds("instagram", n)) \subseteq Ids(call.collected)
        /\ (~cfg.phyllo /\ p = "facebook") =>
             Answered /\ IdSeq(call.collected) = PhylloMockIds("facebook", n)

\* C7 witness: a search of the discovery API without a key returned and
\* persisted mock records
C7_Witness ==
  /\ Answered
  /\ ~cfg.modash
  /\ Lower(call.req.platform) = "instagram"
  /\ call.creators # <<>>
  /\ \A id \in Ids(call.creators) :
       /\ id \in Range(ModashMockIds("instagram", MaxFetch))
       /\ Persisted(db, id) # {}

\* C8: the collected list of a platform=all search is the Twitter records in
\* the order the Twitter service listed them, then the TikTok records in the
\* order the TikTok service listed them, then the Instagram records in the
\* order the discovery API listed them, each labelled with its platform.
C8_CollectOrder ==
  (Answered /\ Lower(call.req.platform) = "all") =>
    LET f == call.fetch
        raw(users) == [i \in DOMAIN users |-> users[i].userId]
        tw == IF cfg.twitter THEN raw(f.twitter.users) ELSE <<>>
        tk == IF cfg.tiktok THEN raw(f.tiktok.users) ELSE <<>>
        ig == IF cfg.modash THEN raw(f.modash.users)
              ELSE ModashMockIds("instagram", call.req.page_size)
        label(n, platform) == [i \in 1..n |-> platform]
    IN  /\ IdSeq(call.collected) = tw \o tk \o ig
        /\ [i \in DOMAIN call.collected |-> call.collected[i].platform]
             = label(Len(tw), "twitter") \o label(Len(tk), "tiktok")
                 \o label(Len(ig), "instagram")

\* C8 witness: a platform=all search collected records of all three platforms
C8_Witness ==
  /\ Answered
  /\ Lower(call.req.platform) = "all"
  /\ \A p \in {"twitter", "tiktok", "instagram"} :
       \E i \in DOMAIN call.collected : call.collected[i].platform = p

\* the gender of a record satisfies the request: equal to the requested gender
\* without regard to case, or absent when the filter is lenient
GenderOk(g, requested, strict) ==
  \/ g # None /\ Lower(g) = Lower(requested)
  \/ g = None /\ ~strict

\* C9: when a gender is requested, every record returned and every row written
\* by the search has the requested gender (case-insensitively) or, in lenient
\* mode only, no gender; in strict mode (records of the live scrapers) no
\* record without a gender is returned, and a different gender never is.
C9_GenderFilter ==
  (Answered /\ Truthy(call.req.gender)) =>
    /\ \A i \in DOMAIN call.creators :
         GenderOk(call.creators[i].gender, call.req.gender, call.is_live_scraper)
    /\ \A r \in BagToSet(db) \ BagToSet(call.before) :
         GenderOk(r.gender, call.req.gender, call.is_live_scraper)

\* C9 witness: a strict search collected a record without a gender and a record
\* of another gender, and returned some record
C9_Witness ==
  /\ Answered
  /\ Truthy(call.req.gender)
  /\ call.is_live_scraper
  /\ call.creators # <<>>
  /\ \E i \in DOMAIN call.collected : call.collected[i].gender = None
  /\ \E i \in DOMAIN call.collected :
       /\ call.collected[i].gender # None
       /\ Lower(call.collected[i].gender) # Lower(call.req.gender)

\* C10 as stated: in strict mode no record without an age range is returned
\* or persisted.
C10_NoAgeDroppedWhenStrict ==
  (Answered /\ call.is_live_scraper) =>
    /\ \A i \in DOMAIN call.creators :
         Truthy(call.creators[i].estimated_age_range)
    /\ \A r \in BagToSet(db) \ BagToSet(call.before) :
         Truthy(r.estimated_age_range)

\* C10 amended: a record without an age range passes the age filter in strict
\* and in lenient mode alike: when it passes the gender filter it is returned
\* and persisted.
C10_NoAgeKept ==
  Answered =>
    \A i \in DOMAIN call.collected :
      LET c == call.collected[i]
      IN  (/\ ~Truthy(c.estimated_age_range)
           /\ Truthy(call.req.gender) =>
                GenderOk(c.gender, call.req.gender, call.is_live_scraper))
          => /\ \E j \in DOMAIN call.creators : call.creators[j] = c
             /\ Persisted(db, c.external_id) # {}

\* C10 witness: a strict search returned a record without an age range
C10_Witness ==
  /\ Answered
  /\ call.is_live_scraper
  /\ Truthy(call.req.gender)
  /\ \E i \in DOMAIN call.creators :
       /\ ~Truthy(call.creators[i].estimated_age_range)
       /\ Persisted(db, call.creators[i].external_id) # {}

\* ------------------------------- the services' functions on their own
\* ServiceSpec calls one function of the services at a time on inputs drawn
\* from the sets below and keeps the call and its result in probe.

\* inputs of the age filter: the bounds a request can carry
AgeBounds ==
  { <<40, 60>>, <<18, 39>>, <<45, 50>>, <<55, 70>>, <<61, 99>>, <<0, 999>>,
    <<50, 50>>, <<65, 65>> }

\* the age loop of search_creators on one record, and the audience loop of
\* calculate_relevance_score on one bucket with the same code
AgeFilterCall ==
  /\ probe = NoProbe
  /\ \E a \in KnownAgeRanges, b \in AgeBounds :
    /\ probe' = [fn |-> "age_filter", age_range |-> a,
                 age_min |-> b[1], age_max |-> b[2],
                 kept |-> AgePasses([estimated_age_range |-> a], b[1], b[2]),
                 counted |-> BucketOverlaps(a, b[1], b[2])]
    /\ UNCHANGED <<cfg, db, seen, clock, call, twitter, batch, links>>

\* --------------------------------------- services/tiktok.py: video search
\* the usernames a video search can surface, and what the profile page of
\* each shows when it is scraped
EnrichUsernames == {"ana", "bea", "cy"}

ProfilePage(username) ==
  CASE username = "ana" ->
         [bio |-> <<"UGC", "creator">>, followers |-> "10.5K",
          displayName |-> <<"Ana", "A">>, avatar |-> "https://p.tiktok/ana",
          videoCount |-> "120"]
    [] username = "bea" ->
         [bio |-> <<"mom", "of", "3">>, followers |-> "1.2M",
          displayName |-> <<"Bea">>, avatar |-> "", videoCount |-> "0"]
    [] OTHER -> [bio |-> <<>>, followers |-> "980"]

\* TikTokService._parse_follower_count on the texts of the model
parse_follower_count(text) ==
  CASE text = "10.5K" -> 10500
    [] text = "1.2M" -> 1200000
    [] text = "980" -> 980
    [] text = "120" -> 120
    [] OTHER -> 0

\* TikTokService._estimate_engagement_rate with heart_count = 0, in hundredths
estimate_engagement_rate(followers, videos) ==
  IF followers = 0 \/ videos = 0 THEN 0 ELSE Min(2000, Max(10, 0))

\* how one profile lookup of a batch ends: enrich_profile returns the page's
\* data ("done") or {} after a failure it caught ("failed"), the task raises
\* outside enrich_profile's handlers ("raised"), or it is still running when
\* the timeout of the batch expires ("pending")
LookupOutcomes == {"done", "failed", "raised", "pending"}

\* TikTokService.enrich_profiles_batch: asyncio.wait_for around the gathered
\* lookups; gather keeps the exceptions of the tasks, wait_for raises
\* TimeoutError when a task is pending at the timeout
enrich_profiles_batch(usernames, outcome) ==
  LET capped == SubSeq(usernames, 1, Min(20, Len(usernames)))
      returned == { u \in Range(capped) : outcome[u] \in {"done", "failed"} }
  IN  IF \E u \in Range(capped) : outcome[u] = "pending"
        THEN [ok |-> FALSE, results |-> EmptyDict]
        ELSE [ok |-> TRUE,
              results |-> [u \in returned |->
                             IF outcome[u] = "done" THEN ProfilePage(u)
                             ELSE EmptyDict]]

\* TikTokService._search_via_videos from the enrichment of the usernames the
\* video queries surfaced (none of them with a caption) to its return
search_via_videos(usernames, outcome, niche, max_results) ==
  LET usernames_to_enrich == SubSeq(usernames, 1, Min(20, Len(usernames)))
      creator(username, profile_data) ==
        LET followers == parse_follower_count(Get(profile_data, "followers", "0"))
            video_count == parse_follower_count(Get(profile_data, "videoCount", "0"))
        IN  [userId |-> "tiktok_" \o username,
             profile |-> [fullname |-> Get(profile_data, "displayName", <<username>>),
                          username |-> username,
                          url |-> "https://www.tiktok.com/@" \o username,
                          picture |-> Get(profile_data, "avatar", ""),
                          bio |-> Get(profile_data, "bio", <<>>),
                          followers |-> followers, following |-> 0,
                          engagementRate |-> estimate_engagement_rate(followers, video_count),
                          postCount |-> video_count,
                          interests |-> <<niche>>,
                          matchedContent |-> ""]]
      build(enriched) ==
        IF ~enriched.ok THEN [ok |-> FALSE, creators |-> <<>>]
        ELSE [ok |-> TRUE,
              creators |->
                SubSeq([i \in 1..Len(usernames_to_enrich) |->
                          creator(usernames_to_enrich[i],
                                  Get(enriched.results, usernames_to_enrich[i], EmptyDict))],
                       1, Min(max_results, Len(usernames_to_enrich)))]
  IN  At(enrich_profiles_batch(usernames_to_enrich, outcome), build)

\* the usernames the video queries can surface, with the way each lookup ends
VideoSearchInputs ==
  UNION { { <<us, outcome>> : outcome \in [Range(us) -> LookupOutcomes] } :
          us \in { s \in SeqsUpTo(EnrichUsernames, 3) : NoDup(s) /\ s # <<>> } }

\* search_via_videos on these inputs, computed once
VideoSearches ==
  [x \in VideoSearchInputs |->
     At(search_via_videos(x[1], x[2], "ugc", 20),
        LAMBDA got : [fn |-> "video_search", usernames |-> x[1], outcome |-> x[2],
                      ok |-> got.ok, creators |-> got.creators])]

\* a video search whose queries surfaced some usernames
VideoSearchCall ==
  /\ probe = NoProbe
  /\ \E x \in VideoSearchInputs :
    /\ probe' = VideoSearches[x]
    /\ UNCHANGED <<cfg, db, seen, clock, call, twitter, batch, links>>

\* ------------------------------------ the scores of a normalized record
\* the scoring weights of the settings, in tenths; the normalizers score with
\* ScoringService(), which takes its default weights whatever the settings say
WeightSettings == { <<4, 3, 3>>, <<10, 10, 10>>, <<0, 0, 0>>, <<20, 0, 5>> }

ScoreInputs ==
  [weights : WeightSettings,
   engagement_rate : {-10, 0, 15, 400, 5000},
   platform : {"tiktok", "Twitter", "threads"},
   followers : {0, 100, 1000000},
   post_count : {0, 600},
   avg_likes : {0, 5000},
   avg_comments : {0, 400},
   bio : { <<>>, <<"UGC", "creator", "|", "honest", "review", "|", "unboxing",
                   "|", "real", "mom", "|", "menopause", "and", "bladder",
                   "and", "pelvic", "floor">> }]

\* the four scores as a normalizer computes them for one record
Scores(x) ==
  LET engagement_score == calculate_engagement_score(x.engagement_rate, x.platform)
      quality_score == calculate_quality_score(x.followers, x.engagement_rate,
                                               x.post_count, x.avg_likes, x.avg_comments)
      relevance_score == calculate_relevance_score(x.bio, <<"beauty">>, "beauty")
  IN  [fn |-> "scores", input |-> x,
       engagement_score |-> engagement_score, quality_score |-> quality_score,
       relevance_score |-> relevance_score,
       overall_score |-> calculate_overall_score(engagement_score, quality_score,
                                                 relevance_score)]

\* Scores, computed once
ScoreTable == [x \in ScoreInputs |-> Scores(x)]

ScoreCall ==
  /\ probe = NoProbe
  /\ \E x \in ScoreInputs :
    /\ probe' = ScoreTable[x]
    /\ UNCHANGED <<cfg, db, seen, clock, call, twitter, batch, links>>

\* ---------------------------------------------------- the tier of a creator
TierInputs ==
  [follower_count : {0, 9999, 10000, 15000, 19999, 20000, 49999, 50000},
   post_count : {0, 199, 200, 250},
   engagement_rate : {0, 29, 30, 42}]

TierTable ==
  [x \in TierInputs |->
     [fn |-> "tier", follower_count |-> x.follower_count,
      post_count |-> x.post_count, engagement_rate |-> x.engagement_rate,
      tier |-> classify_tier(x.follower_count, x.post_count, x.engagement_rate)]]

TierCall ==
  /\ probe = NoProbe
  /\ \E x \in TierInputs :
       /\ probe' = TierTable[x]
       /\ UNCHANGED <<cfg, db, seen, clock, call, twitter, batch, links>>

\* ------------------------------------------- infer_age_range on its own
AgeBios ==
  { <<>>, <<"UGC", "creator">>,
    <<"Born", "1978">>, <<"Born", "1989">>, <<"Born", "1965">>,
    <<"born", "in", "1965">>, <<"born", "in", "1998">>,
    <<"Age", "35">>, <<"Age", "47">>, <<"i'm", "62">>,
    <<"at", "35", "years">>, <<"at", "47", "years">>,
    <<"62", "year", "old">>, <<"48", "year", "old">>,
    <<"class", "of", "1965">>, <<"class", "of", "2003">>,
    <<"since", "1965">>, <<"since", "1978">>,
    <<"|", "62", "|">>, <<"|", "47", "|">>,
    <<"35", "year", "old", "mom", "of", "teens">>,
    <<"Gen", "X", "reviewer">>, <<"Grandma", "|", "honest", "reviews">> }

AgeRangeTable ==
  [bio \in AgeBios |-> [fn |-> "infer_age_range", bio |-> bio,
                        result |-> infer_age_range(bio)]]

AgeRangeCall ==
  /\ probe = NoProbe
  /\ \E bio \in AgeBios :
       /\ probe' = AgeRangeTable[bio]
       /\ UNCHANGED <<cfg, db, seen, clock, call, twitter, batch, links>>

\* ----------------------------------------------- infer_gender on its own
GenderBios ==
  { <<>>, <<"UGC", "creator">>, <<"Mom", "of", "3">>, <<"mom", "mom">>,
    <<"grandmother">>, <<"Crafting", "queen", "|", "Mom", "life">>,
    <<"women", "40+">>, <<"wife", "and", "mother">> }

GenderNames ==
  { <<>>, <<"Sarah", "lee">>, <<"lee", "Sarah">>, <<"Alex">>, <<"Susan">> }

GenderTable ==
  [x \in GenderBios \X GenderNames |->
     [fn |-> "infer_gender", bio |-> x[1], name |-> x[2],
      result |-> infer_gender(x[1], x[2])]]

GenderCall ==
  /\ probe = NoProbe
  /\ \E x \in GenderBios \X GenderNames :
       /\ probe' = GenderTable[x]
       /\ UNCHANGED <<cfg, db, seen, clock, call, twitter, batch, links>>

\* ------------------------------------------- the normalizers on their own
NormalizeBios ==
  { <<>>, <<"UGC", "creator">>, <<"Born", "1978">>, <<"class", "of", "2003">>,
    <<"Gen", "X", "reviewer">>, <<"Mom", "of", "3">>,
    <<"Mom", "of", "3", "|", "Born", "1978">> }

\* what a source lists for one creator: Modash may confirm a gender and an
\* age range, the other sources carry neither
NormalizeInputs ==
  [parser : {"modash"}, gender : {None, "FEMALE"}, age : {None, "45-54"},
   bio : NormalizeBios, name : {<<"Sarah">>, <<"Alex">>}]
  \cup [parser : {"twitter", "phyllo"}, gender : {None}, age : {None},
        bio : NormalizeBios, name : {<<"Sarah">>, <<"Alex">>}]

RawOf(x) ==
  IF x.parser = "phyllo"
    THEN [id |-> "p1", name |-> x.name, platform |-> "facebook", username |-> "p1",
          bio |-> x.bio, followers |-> 45000, engagement_rate |-> 42]
    ELSE [userId |-> "u1",
          profile |-> [fullname |-> x.name, username |-> "u1", bio |-> x.bio,
                       followers |-> 45000, engagementRate |-> 42,
                       gender |-> x.gender, age |-> x.age]]

Normalized(x) ==
  CASE x.parser = "modash" -> parse_modash_creator(RawOf(x), "instagram", "beauty")
    [] x.parser = "twitter" -> parse_twitter_creator(RawOf(x), "beauty")
    [] x.parser = "phyllo" -> parse_phyllo_creator(RawOf(x), "beauty")

NormalizeTable ==
  [x \in NormalizeInputs |-> [fn |-> "normalize", input |-> x, record |-> Normalized(x)]]

NormalizeCall ==
  /\ probe = NoProbe
  /\ \E x \in NormalizeInputs :
       /\ probe' = NormalizeTable[x]
       /\ UNCHANGED <<cfg, db, seen, clock, call, twitter, batch, links>>

\* ------------------------------------- the normalizers on sparse payloads
\* the optional fields of a payload
SparseFields ==
  {"bio", "name", "followers", "engagement_rate", "post_count", "interests",
   "gender", "age"}

\* the key under which a parser reads a field
KeyOf(parser, field) ==
  IF parser = "phyllo" THEN field
  ELSE CASE field = "name" -> "fullname"
         [] field = "engagement_rate" -> "engagementRate"
         [] field = "post_count" -> "postCount"
         [] OTHER -> field

FullProfile(parser) ==
  [f \in {KeyOf(parser, g) : g \in SparseFields} |->
     CASE f = "bio" -> <<"Mom", "of", "3">>
       [] f \in {"name", "fullname"} -> <<"Sarah">>
       [] f = "followers" -> 45000
       [] f \in {"engagement_rate", "engagementRate"} -> 42
       [] f \in {"post_count", "postCount"} -> 120
       [] f = "interests" -> <<"beauty">>
       [] f = "gender" -> "FEMALE"
       [] f = "age" -> "45-54"]

\* A payload: `missing` are the fields it has no key for, `unset` the fields
\* whose key holds None.
SparseInputs ==
  { x \in [parser : {"modash", "phyllo", "twitter"},
           missing : SUBSET SparseFields,
           unset : {{}} \cup {{f} : f \in SparseFields}] :
      x.missing \cap x.unset = {} }

\* the payload without the keys that are missing or hold None
SetProfile(x) ==
  LET full == FullProfile(x.parser)
      keys == DOMAIN full \ {KeyOf(x.parser, f) : f \in x.missing \cup x.unset}
  IN  [k \in keys |-> full[k]]

\* The fields a parser hands to the arithmetic of the scoring service:
\* `engagement_rate / avg` (scoring.py:46), `follower_count > 0` (62) and
\* `post_count > 500` (70) raise TypeError on None.
NumberFields == {"followers", "engagement_rate", "post_count"}

\* a parser on a payload whose unset keys hold None: the record, with None
\* where the parser copies the field, or the error it raises
normalize_sparse(x) ==
  IF x.unset \cap NumberFields # {} THEN [raised |-> "TypeError"]
  ELSE LET profile == SetProfile(x)
           rec == CASE x.parser = "modash" ->
                         parse_modash_creator([userId |-> "u1", profile |-> profile],
                                              "instagram", "beauty")
                    [] x.parser = "twitter" ->
                         parse_twitter_creator([userId |-> "u1", profile |-> profile],
                                               "beauty")
                    [] x.parser = "phyllo" ->
                         parse_phyllo_creator([id |-> "p1", category |-> "beauty"]
                                                @@ profile, "beauty")
           copied == IF x.parser = "phyllo" THEN {"bio", "name"}
                     ELSE {"bio", "name", "interests"}
       IN  [raised |-> "",
            record |-> [k \in DOMAIN rec |->
                          CASE k = "bio" /\ "bio" \in x.unset \cap copied -> None
                            [] k = "name" /\ "name" \in x.unset \cap copied -> None
                            [] k = "niche_tags" /\ "interests" \in x.unset \cap copied -> None
                            [] OTHER -> rec[k]]]

SparseTable ==
  [x \in SparseInputs |-> [fn |-> "normalize_sparse", input |-> x] @@ normalize_sparse(x)]

SparseCall ==
  /\ probe = NoProbe
  /\ \E x \in SparseInputs :
       /\ probe' = SparseTable[x]
       /\ UNCHANGED <<cfg, db, seen, clock, call, twitter, batch, links>>

ServiceInit ==
  /\ cfg = [twitter |-> FALSE, tiktok |-> FALSE, modash |-> FALSE, phyllo |-> FALSE]
  /\ db = EmptyBag
  /\ seen = {}
  /\ clock = 0
  /\ call = NoCall
  /\ probe = NoProbe
  /\ twitter = Unused
  /\ batch = Unused
  /\ links = Unused

\* the function returns and its result is dropped
ServiceReturn ==
  /\ probe # NoProbe
  /\ probe' = NoProbe
  /\ UNCHANGED <<cfg, db, seen, clock, call, twitter, batch, links>>

ServiceNext ==
  \/ AgeFilterCall
  \/ VideoSearchCall
  \/ ScoreCall
  \/ TierCall
  \/ AgeRangeCall
  \/ GenderCall
  \/ NormalizeCall
  \/ SparseCall
  \/ ServiceReturn

ServiceSpec == ServiceInit /\ [][ServiceNext]_vars

\* the ranges "lo-hi" of the model with their ends ("65+" reads as 65-999)
RangeEnds ==
  [a \in {"40-44", "45-49", "50-54", "55-59", "60-64", "40-49", "45-54",
          "50-59", "55-60", "25-34", "65+"} |->
     CASE a = "40-44" -> <<40, 44>> [] a = "45-49" -> <<45, 49>>
       [] a = "50-54" -> <<50, 54>> [] a = "55-59" -> <<55, 59>>
       [] a = "60-64" -> <<60, 64>> [] a = "40-49" -> <<40, 49>>
       [] a = "45-54" -> <<45, 54>> [] a = "50-59" -> <<50, 59>>
       [] a = "55-60" -> <<55, 60>> [] a = "25-34" -> <<25, 34>>
       [] a = "65+" -> <<65, 999>>]

\* C11: a record with the age range "lo-hi" is kept by the age filter exactly
\* when lo <= age_max and hi >= age_min, and relevance scoring counts an
\* audience bucket with that code under exactly the same condition; a record
\* whose age range does not parse ("40s", "-45") is kept.
C11_AgeOverlap ==
  probe.fn = "age_filter" =>
    /\ probe.age_range \in DOMAIN RangeEnds =>
         LET lo == RangeEnds[probe.age_range][1]
             hi == RangeEnds[probe.age_range][2]
         IN  /\ probe.kept <=> (lo <= probe.age_max /\ hi >= probe.age_min)
             /\ probe.counted <=> probe.kept
    /\ probe.age_range \in {"40s", "-45"} => probe.kept

\* C11 witness: the filter dropped the range 45-54, which ends below age_min = 55
C11_Witness ==
  /\ probe.fn = "age_filter"
  /\ probe.age_range = "45-54"
  /\ probe.age_min = 55
  /\ ~probe.kept

\* the sort key of a record under a request: x.get(sort_by, 0)
SortKey(c, sort_by) == IF sort_by \in DOMAIN c THEN c[sort_by] ELSE 0

\* C12: the returned list is in non-increasing order of the requested sort
\* field, a record without the field counting as 0, and the returned
\* records of equal value stand in the order in which they were collected.
C12_SortedStable ==
  Answered =>
    LET by == call.req.sort_by
        out == call.creators
        values == { SortKey(out[i], by) : i \in DOMAIN out }
    IN  /\ \A i, j \in DOMAIN out :
             i < j => SortKey(out[i], by) >= SortKey(out[j], by)
        /\ \A v \in values :
             SelectSeq(out, LAMBDA c : SortKey(c, by) = v)
               = SelectSeq(call.collected,
                           LAMBDA c : c \in Range(out) /\ SortKey(c, by) = v)

\* C12 witness: the sort moved a record in front of one collected before it,
\* and left two different records of equal value in their collected order
C12_Witness ==
  /\ Answered
  /\ \E i, j \in DOMAIN call.collected :
       /\ i < j
       /\ \E k, l \in DOMAIN call.creators :
            k < l /\ call.creators[k] = call.collected[j]
                  /\ call.creators[l] = call.collected[i]
                  /\ call.creators[k] # call.creators[l]
  /\ \E k, l \in DOMAIN call.creators :
       /\ k < l
       /\ call.creators[k] # call.creators[l]
       /\ SortKey(call.creators[k], call.req.sort_by)
            = SortKey(call.creators[l], call.req.sort_by)


\* C13: when the requested sort field is unknown, search orders its result by
\* overall_score in descending order, as if sort_by=overall_score had been
\* requested.
C13_UnknownSortFallsBack ==
  (Answered /\ \A i \in DOMAIN call.creators : call.req.sort_by \notin DOMAIN call.creators[i]) =>
    \A i, j \in DOMAIN call.creators :
      i < j => call.creators[i].overall_score >= call.creators[j].overall_score

\* C14: the response's count is the number of records it returns, and its
\* persisted total is the number of rows of the store after the commit,
\* whether or not the rows pass the filters of the request.
C14_ResponseCounts ==
  Answered =>
    /\ call.total = Len(call.creators)
    /\ call.db_total = BagCardinality(db)
    /\ call.db_total = Cardinality(StoredIds(call.before) \cup Ids(call.creators))

\* C14 witness: the store holds more rows than the search returned, one of
\* them of a gender the request filters out
C14_Witness ==
  /\ Answered
  /\ call.db_total > call.total
  /\ Truthy(call.req.gender)
  /\ \E r \in BagToSet(db) :
       r.gender # None /\ Lower(r.gender) # Lower(call.req.gender)

\* C15: no enrichment failure or timeout fails the fetch: the video search
\* returns one creator per surfaced username, and the creators whose lookup
\* did not complete carry no enrichment data.
C15_EnrichmentNeverFails ==
  probe.fn = "video_search" =>
    /\ probe.ok
    /\ [i \in DOMAIN probe.creators |-> probe.creators[i].profile.username]
         = probe.usernames
    /\ \A i \in DOMAIN probe.creators :
         probe.outcome[probe.usernames[i]] # "done"
           => probe.creators[i].profile.bio = <<>>

\* C16: the engagement, quality, relevance and overall score of a record lie
\* in [0, 100] (0..1000 tenths) for every engagement rate, follower count,
\* post count, like and comment count, and whatever scoring weights the
\* settings carry.
C16_ScoresInRange ==
  probe.fn = "scores" =>
    \A k \in {"engagement_score", "quality_score", "relevance_score", "overall_score"} :
      probe[k] >= 0 /\ probe[k] <= 1000

\* C16 witness: a record scored 100 for engagement although its rate is many
\* times the platform's average, under settings whose weights add up to 3
C16_Witness ==
  /\ probe.fn = "scores"
  /\ probe.input.engagement_rate = 5000
  /\ probe.input.weights = <<10, 10, 10>>
  /\ probe.engagement_score = 1000
  /\ probe.overall_score > 700

TierOf(follower_count, post_count, engagement_rate, tier) ==
  (/\ probe.fn = "tier"
   /\ probe.follower_count = follower_count
   /\ probe.post_count = post_count
   /\ probe.engagement_rate = engagement_rate) => probe.tier = tier

\* C17 (as stated): classify_tier(50000, 0, 0) is "established",
\* classify_tier(9999, 0, 0) is "emerging", classify_tier(15000, 250, 0) is
\* "established" and classify_tier(10000, 0, 3.0) is "established".
C17_TierExamples ==
  /\ TierOf(50000, 0, 0, "established")
  /\ TierOf(9999, 0, 0, "emerging")
  /\ TierOf(15000, 250, 0, "established")
  /\ TierOf(10000, 0, 30, "established")

\* C17 (amended): classify_tier(50000, 0, 0) is "established",
\* classify_tier(9999, 0, 0) is "emerging", classify_tier(10000, 0, 3.0) is
\* "established", and classify_tier(15000, 250, 0) is "emerging": 200 posts
\* make a creator established from 20,000 followers on, not from 10,000.
C17_TierExamplesAmended ==
  /\ TierOf(50000, 0, 0, "established")
  /\ TierOf(9999, 0, 0, "emerging")
  /\ TierOf(15000, 250, 0, "emerging")
  /\ TierOf(10000, 0, 30, "established")
  /\ TierOf(20000, 200, 0, "established")
  /\ TierOf(19999, 250, 29, "emerging")

\* C17 witness: the tier of a creator with 15,000 followers and 250 posts
C17_Witness ==
  /\ probe.fn = "tier"
  /\ probe.follower_count = 15000
  /\ probe.post_count = 250
  /\ probe.engagement_rate = 0
  /\ probe.tier = "emerging"

\* the words of the numeric patterns of infer_age_range
PatternWords ==
  { "born", "in", "age", "i'm", "at", "years", "year", "old", "class", "of",
    "since", "|" }

\* the age a number of the bio stands for: a stated age, a birth year, or a
\* graduation year (at 18) in a bio that speaks of a class
DerivedAge(b, tok) ==
  IF IntOf(tok) \in 10..99 THEN IntOf(tok)
  ELSE IF \E i \in DOMAIN b : b[i] = "class" THEN CurrentYear - (IntOf(tok) - 18)
  ELSE CurrentYear - IntOf(tok)

\* the bio is one numeric pattern and nothing else, and the age its number
\* stands for lies outside [40, 60]
OnlyOutOfBandNumber(bio) ==
  LET b == [i \in DOMAIN bio |-> Lower(bio[i])]
  IN  /\ \E i \in DOMAIN b : IntOf(b[i]) >= 10
      /\ \A i \in DOMAIN b :
           \/ b[i] \in PatternWords
           \/ IntOf(b[i]) >= 10 /\ (DerivedAge(b, b[i]) < 40 \/ DerivedAge(b, b[i]) > 60)

\* C18: a bio whose only age signal is a birth year, graduation year or stated
\* age whose derived age is outside [40, 60] yields (None, "low"):
\* infer_age_range returns no range on the strength of such a number.
C18_OutOfBandDiscarded ==
  (probe.fn = "infer_age_range" /\ OnlyOutOfBandNumber(probe.bio)) =>
    probe.result = <<None, "low">>

\* the female-signal keywords that occur in the bio, each counted once
FemaleKeywordsIn(bio) ==
  { k \in 1..Len(FEMALE_INDICATORS) :
      \E i \in DOMAIN bio : Within(FEMALE_INDICATORS[k][1], Lower(bio[i])) }

\* C19: infer_gender returns female or None only: (female, high) when two or
\* more distinct female-signal keywords occur in the bio, (female, medium)
\* when exactly one does, and when none does (female, low) if the first token
\* of the display name is a common female name and (None, low) otherwise.
C19_GenderRule ==
  probe.fn = "infer_gender" =>
    LET n == Cardinality(FemaleKeywordsIn(probe.bio))
    IN  /\ probe.result[1] \in {"female", None}
        /\ n >= 2 => probe.result = <<"female", "high">>
        /\ n = 1 => probe.result = <<"female", "medium">>
        /\ n = 0 =>
             IF probe.name # <<>> /\ Lower(probe.name[1]) \in COMMON_FEMALE_NAMES
               THEN probe.result = <<"female", "low">>
               ELSE probe.result = <<None, "low">>

\* C19 witness: no keyword in the bio and a common female name that is not the
\* first token of the display name: no gender is inferred
C19_Witness ==
  /\ probe.fn = "infer_gender"
  /\ probe.bio = <<"UGC", "creator">>
  /\ probe.name = <<"lee", "Sarah">>
  /\ probe.result = <<None, "low">>

\* the bios whose age range comes from the keyword table
KeywordRangeBios == { <<"Gen", "X", "reviewer">> }

\* the bios that state a birth year outright
BirthYearBios == { <<"Born", "1978">>, <<"Mom", "of", "3", "|", "Born", "1978">> }

\* C20 (as stated): demographic_confidence is "high" only when the source
\* itself supplied a confirmed age or gender; when the demographics are
\* inferred from text it is "medium" for a keyword-range match and "low" when
\* there is no age signal.
C20_HighOnlyWhenSourceSupplied ==
  probe.fn = "normalize" =>
    LET supplied == Truthy(probe.input.gender) \/ Truthy(probe.input.age)
        confidence == probe.record.demographic_confidence
    IN  /\ confidence = "high" => supplied
        /\ (~supplied /\ probe.input.bio \in KeywordRangeBios) => confidence = "medium"
        /\ (~supplied /\ probe.record.estimated_age_range = None) => confidence = "low"

\* C20 (amended): demographic_confidence is the confidence of the age range
\* alone: "high" when the source supplied an age range, otherwise what
\* infer_age_range says of the bio ("high" for a birth year or age stated
\* outright, "medium" for a graduation year or a keyword-range match, "low"
\* when no range is derived); the gender, supplied or inferred, has no part
\* in it.
C20_ConfidenceOfAgeOnly ==
  probe.fn = "normalize" =>
    LET confidence == probe.record.demographic_confidence
    IN  /\ Truthy(probe.input.age) => confidence = "high"
        /\ ~Truthy(probe.input.age) =>
             /\ confidence = infer_age_range(probe.input.bio)[2]
             /\ probe.input.bio \in KeywordRangeBios => confidence = "medium"
             /\ probe.record.estimated_age_range = None => confidence = "low"
             /\ confidence = "high" => probe.input.bio \in BirthYearBios

\* C20 witness: a Twitter record, for which the source confirms nothing, has
\* confidence "high" because its bio states the birth year
C20_Witness ==
  /\ probe.fn = "normalize"
  /\ probe.input.parser = "twitter"
  /\ probe.input.bio = <<"Born", "1978">>
  /\ probe.record.estimated_age_range = "45-49"
  /\ probe.record.demographic_confidence = "high"

\* C20: a record whose gender the source confirmed and whose age is unknown
C20_WitnessGenderOnly ==
  /\ probe.fn = "normalize"
  /\ probe.input.gender = "FEMALE"
  /\ probe.input.age = None
  /\ probe.record.gender = "female"
  /\ probe.record.demographic_confidence = "low"

\* C21: niche_tags is never empty in a normalized record, whatever the
\* normalizer and the payload, a payload with an empty bio and no interests
\* or category included: when nothing is detected it holds one default tag.
C21_NicheTagsNeverEmpty ==
  probe.fn = "normalize" =>
    /\ probe.record.niche_tags # <<>>
    /\ \A i \in DOMAIN probe.record.niche_tags : probe.record.niche_tags[i] # ""

\* C22: a normalizer does not raise for a sparse payload: whatever subset of
\* the optional fields (bio, name, follower count, engagement rate, post
\* count, interests, gender, age) is missing or unset, it returns a record,
\* and the record's missing fields hold the empty string, 0 or None.
C22_SparseNeverRaises ==
  probe.fn = "normalize_sparse" =>
    /\ probe.raised = ""
    /\ \A f \in probe.input.missing \cap {"bio", "name"} : probe.record[f] = <<>>
    /\ "followers" \in probe.input.missing => probe.record.follower_count = 0
    /\ "engagement_rate" \in probe.input.missing => probe.record.engagement_rate = 0

\* C23: normalizing, on platform instagram, a payload with followers 45000,
\* engagement rate 4.2, bio "Mom of 3 | Born 1978" and no age or gender from
\* the source yields a record with estimated_age_range "45-49", gender
\* "female" and tier "emerging".
C23_EndToEnd ==
  (/\ probe.fn = "normalize"
   /\ probe.input.parser = "modash"
   /\ probe.input.bio = <<"Mom", "of", "3", "|", "Born", "1978">>
   /\ probe.input.gender = None
   /\ probe.input.age = None) =>
    /\ probe.record.follower_count = 45000
    /\ probe.record.engagement_rate = 42
    /\ probe.record.estimated_age_range = "45-49"
    /\ probe.record.gender = "female"
    /\ "tier" \in DOMAIN probe.record
    /\ probe.record.tier = "emerging"

\* C24: a search writes only the rows of the records it returns: a row whose
\* external_id is not among them (the row of a record dropped by the gender or
\* age filter included) is as it was before the search, none is inserted for
\* a dropped record, no row is deleted, and the number of rows does not
\* decrease.
C24_WritesOnlyFiltered ==
  call.status # 0 =>
    /\ \A r \in BagToSet(db) \cup BagToSet(call.before) :
         r.external_id \notin Ids(call.creators) =>
           CopiesIn(r, db) = CopiesIn(r, call.before)
    /\ StoredIds(call.before) \subseteq StoredIds(db)
    /\ StoredIds(db) \subseteq StoredIds(call.before) \cup Ids(call.creators)
    /\ BagCardinality(db) >= BagCardinality(call.before)

\* C24 witness: a search drops a collected record whose row an earlier search
\* wrote, returns and writes another record, and the row is still there
C24_Witness ==
  /\ Answered
  /\ call.creators # <<>>
  /\ \E i \in DOMAIN call.collected :
       /\ call.collected[i].external_id \notin Ids(call.creators)
       /\ Persisted(call.before, call.collected[i].external_id) # {}
       /\ Persisted(db, call.collected[i].external_id)
            = Persisted(call.before, call.collected[i].external_id)
  /\ BagCardinality(db) > BagCardinality(call.before)

\* a live scraper took part in the search: Twitter has a key and the platform
\* is twitter or all, or TikTok is enabled, the platform is tiktok or all and
\* TikTok returned at least one record
LiveScraperTookPart ==
  LET p == Lower(call.req.platform)
  IN  \/ p \in {"twitter", "all"} /\ cfg.twitter
      \/ p \in {"tiktok", "all"} /\ cfg.tiktok /\ call.fetch.tiktok.users # <<>>

\* C25: the gender filter of a search is strict exactly when a live scraper
\* took part, and then for the records of every source: no collected record
\* without a gender is returned, the discovery API's records included; in
\* every other search it is lenient: a collected record without a gender that
\* passes the age filter is returned.
C25_StrictOncePerSearch ==
  Answered =>
    /\ call.is_live_scraper = LiveScraperTookPart
    /\ Truthy(call.req.gender) =>
         \A i \in DOMAIN call.collected :
           call.collected[i].gender = None =>
             IF LiveScraperTookPart
               THEN \A j \in DOMAIN call.creators : call.creators[j] # call.collected[i]
               ELSE AgePasses(call.collected[i], call.req.age_min, call.req.age_max)
                      => \E j \in DOMAIN call.creators :
                           call.creators[j] = call.collected[i]

\* C25 witness: a platform=all search with a gender, in which Twitter took
\* part, drops a record of the discovery API that has no gender
C25_Witness ==
  /\ Answered
  /\ Lower(call.req.platform) = "all"
  /\ Truthy(call.req.gender)
  /\ cfg.twitter
  /\ call.creators # <<>>
  /\ \E i \in DOMAIN call.collected :
       /\ call.collected[i].platform = "instagram"
       /\ call.collected[i].gender = None
       /\ call.collected[i].external_id \notin Ids(call.creators)

\* ------------------------------------------------- services/twitter.py
\* len(UGC_SEARCH_QUERIES), len(NITTER_SEARCH_QUERIES)
UgcQueryCount == 27
NitterQueryCount == 13

NITTER_INSTANCES ==
  << "https://nitter.privacydev.net", "https://nitter.poast.org",
     "https://nitter.woodland.cafe" >>

\* The arguments of TwitterService.search_creators.  A query is given by the
\* number of its comma-separated terms.
TwitterArgs ==
  [query_terms : {0, 1, 3}, niche : {None, "beauty"}, max_results : {20, 150},
   deep_search : BOOLEAN]

\* Users one page of the recent-search API, or one Nitter page, adds to
\* all_creators: those not seen before and not skipped.
PageUsers == {0, 100}

\* the TwitterService instance between two searches
TwitterIdle(bearer_token, checked, cached, finds, first_found) ==
  [bearer_token |-> bearer_token,
   nitter_cache_checked |-> checked, cached_nitter_instance |-> cached,
   \* how many calls of _find_working_nitter have completed (2: two or more),
   \* and what the first of them returned
   finds |-> finds, first_found |-> first_found,
   pc |-> "idle", args |-> None, api_results |-> -1,
   queries |-> 0, internal_cap |-> 0, max_pages |-> 0,
   query_index |-> 0, page |-> 0, next_token |-> None, all_creators |-> 0,
   asked_at |-> -1, asked_with_token |-> None,
   nitter_requests |-> 0, probes |-> 0, nitter_base |-> "not called",
   result |-> [source |-> None, creators |-> 0]]

\* _is_configured
twitter_is_configured(svc) == svc.bearer_token

\* _search_via_api: the list `queries` (its length), internal_cap, and
\* max_pages
api_queries(args) ==
  IF args.query_terms > 0 THEN Min(args.query_terms, 2) + 1
  ELSE LET all == UgcQueryCount + (IF Truthy(args.niche) THEN 1 ELSE 0)
       IN  IF ~args.deep_search THEN Min(all, 5) ELSE all

api_internal_cap(args) == IF ~args.deep_search THEN args.max_results ELSE 500

api_max_pages(args) == IF args.deep_search THEN 10 ELSE 1

\* _search_via_nitter: the list `queries` (its length) and internal_cap
nitter_queries(args) ==
  IF args.query_terms > 0 THEN Min(args.query_terms, 2)
  ELSE LET all == NitterQueryCount + (IF Truthy(args.niche) THEN 2 ELSE 0)
       IN  IF ~args.deep_search THEN Min(all, 6) ELSE all

nitter_internal_cap(args) == IF ~args.deep_search THEN args.max_results ELSE 200

\* the two loops of _search_via_api without their tests of internal_cap
api_continue_uncapped(s) ==
  IF s.next_token # None /\ s.page + 1 < s.max_pages
    THEN [s EXCEPT !.pc = "api_request", !.page = s.page + 1]
  ELSE IF s.query_index < s.queries
    THEN [s EXCEPT !.pc = "api_request", !.query_index = s.query_index + 1,
                   !.page = 0, !.next_token = None]
  ELSE [s EXCEPT !.pc = "api_return"]

\* The two loops of _search_via_api from the end of one page's users to the
\* next request: `if not next_token: break`, the next _page of the range, the
\* next search_query, and the two tests of internal_cap on the way.
api_continue(s) ==
  IF s.all_creators >= s.internal_cap THEN [s EXCEPT !.pc = "api_return"]
  ELSE IF s.next_token # None /\ s.page + 1 < s.max_pages
    THEN [s EXCEPT !.pc = "api_request", !.page = s.page + 1]
  ELSE IF s.query_index < s.queries
    THEN [s EXCEPT !.pc = "api_request", !.query_index = s.query_index + 1,
                   !.page = 0, !.next_token = None]
  ELSE [s EXCEPT !.pc = "api_return"]

\* _search_via_api up to its first request
api_enter(s) ==
  LET t == [s EXCEPT !.queries = api_queries(s.args),
                     !.internal_cap = api_internal_cap(s.args),
                     !.max_pages = api_max_pages(s.args),
                     !.query_index = 1, !.page = 0, !.next_token = None,
                     !.all_creators = 0]
  IN  IF t.queries = 0 \/ t.all_creators >= t.internal_cap
        THEN [t EXCEPT !.pc = "api_return"]
        ELSE [t EXCEPT !.pc = "api_request"]

\* search_creators with the Nitter search run after every API search
after_api_always_nitter(s, results) ==
  [s EXCEPT !.pc = "nitter_find", !.api_results = results]

\* search_creators after _search_via_api: `if results: return results`, else
\* on to _search_via_nitter
after_api(s, results) ==
  IF results > 0
    THEN [s EXCEPT !.pc = "done", !.api_results = results,
                   !.result = [source |-> "api", creators |-> results]]
    ELSE [s EXCEPT !.pc = "nitter_find", !.api_results = results]

\* _find_working_nitter without the test of the cache
find_working_nitter_always_probes(s, working) ==
  LET first == IF \E i \in DOMAIN NITTER_INSTANCES : NITTER_INSTANCES[i] \in working
                 THEN NITTER_INSTANCES[CHOOSE i \in DOMAIN NITTER_INSTANCES :
                        /\ NITTER_INSTANCES[i] \in working
                        /\ \A j \in 1..(i - 1) : NITTER_INSTANCES[j] \notin working]
                 ELSE None
  IN  [s EXCEPT !.nitter_cache_checked = TRUE, !.cached_nitter_instance = first,
                !.probes = s.probes + Len(NITTER_INSTANCES),
                !.nitter_requests = s.nitter_requests + Len(NITTER_INSTANCES),
                !.nitter_base = first]

\* _find_working_nitter: the cached answer, or one check of every instance
\* (working: the instances that answer below 400) and the first that works
find_working_nitter(s, working) ==
  LET first == IF \E i \in DOMAIN NITTER_INSTANCES : NITTER_INSTANCES[i] \in working
                 THEN NITTER_INSTANCES[CHOOSE i \in DOMAIN NITTER_INSTANCES :
                        /\ NITTER_INSTANCES[i] \in working
                        /\ \A j \in 1..(i - 1) : NITTER_INSTANCES[j] \notin working]
                 ELSE None
  IN  IF s.nitter_cache_checked
        THEN [s EXCEPT !.nitter_base = s.cached_nitter_instance]
        ELSE [s EXCEPT !.nitter_cache_checked = TRUE,
                       !.cached_nitter_instance = first,
                       !.probes = s.probes + Len(NITTER_INSTANCES),
                       !.nitter_requests = s.nitter_requests + Len(NITTER_INSTANCES),
                       !.nitter_base = first]

\* the loop of _search_via_nitter from the end of one page's users to the next
nitter_continue(s) ==
  IF s.query_index < s.queries /\ s.all_creators < s.internal_cap
    THEN [s EXCEPT !.pc = "nitter_scrape", !.query_index = s.query_index + 1]
    ELSE [s EXCEPT !.pc = "done",
                   !.result = [source |-> "nitter",
                               creators |-> Min(s.all_creators, s.internal_cap)]]

\* a client calls search_creators; a configured service enters _search_via_api
TwitterSearchCreators ==
  /\ twitter.pc = "idle"
  /\ \E args \in TwitterArgs :
       twitter' = IF twitter_is_configured(twitter)
                    THEN api_enter([twitter EXCEPT !.args = args])
                    ELSE [twitter EXCEPT !.args = args, !.pc = "nitter_find"]
  /\ UNCHANGED <<cfg, db, seen, clock, call, probe, batch, links>>

\* one _run_search_paginated and the loop over its users: a page of users
\* with or without a next_token, or ([], None) after an httpx.HTTPError
TwitterApiPage ==
  /\ twitter.pc = "api_request"
  /\ \E users \in PageUsers, token \in {None, "next"}, http_error \in BOOLEAN :
       /\ http_error => users = 0 /\ token = None
       /\ twitter' = api_continue(
            [twitter EXCEPT !.asked_at = twitter.all_creators,
                            !.asked_with_token = twitter.next_token,
                            !.all_creators = twitter.all_creators + users,
                            !.next_token = token])
  /\ UNCHANGED <<cfg, db, seen, clock, call, probe, batch, links>>

\* resp.json() fails on a body that is not JSON: the ValueError is no
\* httpx.HTTPError and leaves _search_via_api and search_creators
TwitterApiBadBody ==
  /\ twitter.pc = "api_request"
  /\ twitter' = [twitter EXCEPT !.pc = "raised",
                                !.asked_at = twitter.all_creators,
                                !.asked_with_token = twitter.next_token]
  /\ UNCHANGED <<cfg, db, seen, clock, call, probe, batch, links>>

\* return all_creators[:internal_cap], and search_creators goes on
TwitterApiReturn ==
  /\ twitter.pc = "api_return"
  /\ twitter' = after_api(twitter, Min(twitter.all_creators, twitter.internal_cap))
  /\ UNCHANGED <<cfg, db, seen, clock, call, probe, batch, links>>

\* _search_via_nitter up to the end of _find_working_nitter
TwitterFindNitter ==
  /\ twitter.pc = "nitter_find"
  /\ \E working \in SUBSET { NITTER_INSTANCES[i] : i \in DOMAIN NITTER_INSTANCES } :
       \E found \in {find_working_nitter(twitter, working)} :
         LET s == [found EXCEPT !.finds = Min(found.finds + 1, 2),
                                !.first_found = IF found.finds = 0
                                                  THEN found.nitter_base
                                                  ELSE found.first_found,
                                !.queries = nitter_queries(found.args),
                                !.internal_cap = nitter_internal_cap(found.args),
                                !.query_index = 0, !.all_creators = 0]
         IN  twitter' = IF found.nitter_base = None
                          THEN [s EXCEPT !.pc = "done",
                                         !.result = [source |-> "nitter", creators |-> 0]]
                          ELSE nitter_continue(s)
  /\ UNCHANGED <<cfg, db, seen, clock, call, probe, batch, links>>

\* one _scrape_nitter_search (every failure gives []) and the loop over its users
TwitterNitterPage ==
  /\ twitter.pc = "nitter_scrape"
  /\ \E users \in PageUsers :
       twitter' = nitter_continue(
         [twitter EXCEPT !.all_creators = twitter.all_creators + users,
                         !.nitter_requests = twitter.nitter_requests + 1])
  /\ UNCHANGED <<cfg, db, seen, clock, call, probe, batch, links>>

\* search_creators returns or raises; the instance keeps its cache
TwitterReturn ==
  /\ twitter.pc \in {"done", "raised"}
  /\ twitter' = TwitterIdle(twitter.bearer_token, twitter.nitter_cache_checked,
                            twitter.cached_nitter_instance, twitter.finds,
                            twitter.first_found)
  /\ UNCHANGED <<cfg, db, seen, clock, call, probe, batch, links>>

TwitterInit ==
  /\ cfg = [twitter |-> FALSE, tiktok |-> FALSE, modash |-> FALSE, phyllo |-> FALSE]
  /\ db = EmptyBag
  /\ seen = {}
  /\ clock = 0
  /\ call = NoCall
  /\ probe = NoProbe
  /\ \E bearer_token \in BOOLEAN :
       twitter = TwitterIdle(bearer_token, FALSE, None, 0, None)
  /\ batch = Unused
  /\ links = Unused

TwitterNext ==
  \/ TwitterSearchCreators
  \/ TwitterApiPage
  \/ TwitterApiBadBody
  \/ TwitterApiReturn
  \/ TwitterFindNitter
  \/ TwitterNitterPage
  \/ TwitterReturn

TwitterSpec == TwitterInit /\ [][TwitterNext]_vars

\* the search in progress has been through _search_via_nitter
InNitter ==
  \/ twitter.pc \in {"nitter_find", "nitter_scrape"}
  \/ twitter.nitter_base # "not called"
  \/ twitter.nitter_requests > 0
  \/ twitter.result.source = "nitter"

\* C26: TwitterService.search_creators turns to Nitter only when the service
\* has no token or the API search gave no creators; when the API search gives
\* at least one creator, that result is returned and no request goes to Nitter.
C26_NitterOnlyAsFallback ==
  /\ InNitter => (~twitter.bearer_token \/ twitter.api_results = 0)
  /\ (~twitter.bearer_token /\ twitter.pc # "idle") => twitter.api_results = -1
  /\ twitter.api_results > 0 =>
       /\ twitter.nitter_requests = 0
       /\ twitter.pc = "done"
       /\ twitter.result = [source |-> "api", creators |-> twitter.api_results]

\* C26 witness: the token stopped working (every API page failed), and the
\* search returns what Nitter gave
C26_Witness ==
  /\ twitter.bearer_token
  /\ twitter.api_results = 0
  /\ twitter.pc = "done"
  /\ twitter.nitter_requests > 0
  /\ twitter.result.source = "nitter"
  /\ twitter.result.creators > 0

\* C27: once a call of _find_working_nitter has completed, every later call
\* on the instance returns what that call returned, None included, and checks
\* no Nitter instance.
C27_NitterCacheHolds ==
  (twitter.finds = 2 /\ twitter.nitter_base # "not called") =>
    /\ twitter.probes = 0
    /\ twitter.nitter_base = twitter.first_found

\* C27 witness: a later search finds the cached None and checks nothing
C27_Witness ==
  /\ twitter.finds = 2
  /\ twitter.first_found = None
  /\ twitter.nitter_base = None
  /\ twitter.probes = 0
  /\ twitter.pc = "done"

\* C29: _search_via_api asks for at most 1 page per query in a normal search
\* and 10 in a deep one, asks for a further page of a query only with the
\* next_token of the page before, uses at most 5 queries in a normal search
\* without a query string, asks nothing once the collected creators reach the
\* cap (max_results, or 500 in a deep search), and returns no more than the cap.
C29_ApiRequestsBounded ==
  LET a == twitter.args
      cap == IF a.deep_search THEN 500 ELSE a.max_results
  IN  /\ twitter.pc \in {"api_request", "api_return", "raised"} =>
            /\ twitter.page + 1 <= (IF a.deep_search THEN 10 ELSE 1)
            /\ (~a.deep_search /\ a.query_terms = 0) => twitter.query_index <= 5
            /\ twitter.query_index <= UgcQueryCount + 1
            /\ twitter.asked_at < cap
            /\ twitter.page > 0 =>
                 IF twitter.pc = "api_request" THEN twitter.next_token # None
                 ELSE twitter.asked_with_token # None
      /\ twitter.pc = "api_request" => twitter.all_creators < cap
      /\ twitter.api_results >= 0 => twitter.api_results <= cap

\* C29 witness: a deep search reaches its cap of 500 before its queries run
\* out and stops asking
C29_Witness ==
  /\ twitter.pc = "api_return"
  /\ twitter.args.deep_search
  /\ twitter.asked_at = 400
  /\ twitter.all_creators = 500
  /\ twitter.query_index < twitter.queries


\* ---------------------------------------------------------------------------
\* TikTokService.enrich_profiles_batch (services/tiktok.py): one _enrich_one
\* task per listed username, gated by an asyncio.Semaphore, under a 15 second
\* wait_for.  Usernames are written as numbers; the value stored per username
\* by results[uname] = data is left out, only its key is kept.
\* ---------------------------------------------------------------------------

\* usernames = usernames[:20]
BatchCap == 20

\* max_concurrent: int = 3
DefaultMaxConcurrent == 3

\* longest username list handed to the batch
MaxUsernames == 22

Usernames == 1..MaxUsernames

\* the lists the batch is called with: distinct usernames, as _search_via_videos
\* builds them from the set seen_usernames
UsernameLists == {[i \in 1..n |-> i] : n \in {0, 3, MaxUsernames}}

BatchIdle ==
  [pc |-> "idle", usernames |-> <<>>, max_concurrent |-> 0, tasks |-> <<>>,
   next |-> 0, in_flight |-> {}, calls |-> [u \in Usernames |-> 0],
   results |-> {}]

\* usernames[:20]
batch_usernames(usernames) ==
  SubSeq(usernames, 1, IF Len(usernames) < BatchCap THEN Len(usernames) ELSE BatchCap)

semaphore_always_free(b) == TRUE

\* asyncio.Semaphore(max_concurrent): "async with semaphore" enters while the
\* number of holders is below max_concurrent
semaphore_free(b) == Cardinality(b.in_flight) < b.max_concurrent

\* enrich_profiles_batch is called: the list is cut, the tasks are created
BatchCall ==
  /\ batch.pc = "idle"
  /\ \E usernames \in UsernameLists, max_concurrent \in {1, DefaultMaxConcurrent} :
       batch' = [BatchIdle EXCEPT !.pc = "gather",
                                  !.usernames = usernames,
                                  !.max_concurrent = max_concurrent,
                                  !.tasks = batch_usernames(usernames)]
  /\ UNCHANGED <<cfg, db, seen, clock, call, probe, twitter, links>>

\* the next waiting _enrich_one enters the semaphore (waiters are woken in the
\* order they were created) and calls enrich_profile(uname)
BatchAcquire ==
  /\ batch.pc = "gather"
  /\ batch.next < Len(batch.tasks)
  /\ semaphore_free(batch)
  /\ LET i == batch.next + 1
         uname == batch.tasks[i]
     IN  batch' = [batch EXCEPT !.next = i,
                                !.in_flight = @ \cup {i},
                                !.calls[uname] = @ + 1]
  /\ UNCHANGED <<cfg, db, seen, clock, call, probe, twitter, links>>

\* an enrich_profile call returns (profile data, or {} after any failure);
\* results[uname] = data, and the semaphore is released
BatchEnriched ==
  /\ batch.pc = "gather"
  /\ \E i \in batch.in_flight :
       batch' = [batch EXCEPT !.in_flight = @ \ {i},
                              !.results = @ \cup {batch.tasks[i]}]
  /\ UNCHANGED <<cfg, db, seen, clock, call, probe, twitter, links>>

\* the 15 seconds of wait_for pass with tasks unfinished: gather and its tasks
\* are cancelled and TimeoutError is raised
BatchTimeout ==
  /\ batch.pc = "gather"
  /\ batch.in_flight # {} \/ batch.next < Len(batch.tasks)
  /\ batch' = [batch EXCEPT !.pc = "raised", !.in_flight = {}]
  /\ UNCHANGED <<cfg, db, seen, clock, call, probe, twitter, links>>

\* every task has finished: gather completes
BatchGathered ==
  /\ batch.pc = "gather"
  /\ batch.next = Len(batch.tasks)
  /\ batch.in_flight = {}
  /\ batch' = [batch EXCEPT !.pc = "done"]
  /\ UNCHANGED <<cfg, db, seen, clock, call, probe, twitter, links>>

\* return results (or the TimeoutError reaches the caller)
BatchReturn ==
  /\ batch.pc \in {"done", "raised"}
  /\ batch' = BatchIdle
  /\ UNCHANGED <<cfg, db, seen, clock, call, probe, twitter, links>>

BatchInit ==
  /\ cfg = [twitter |-> FALSE, tiktok |-> FALSE, modash |-> FALSE, phyllo |-> FALSE]
  /\ db = EmptyBag
  /\ seen = {}
  /\ clock = 0
  /\ call = NoCall
  /\ probe = NoProbe
  /\ twitter = Unused
  /\ batch = BatchIdle
  /\ links = Unused

BatchNext ==
  \/ BatchCall
  \/ BatchAcquire
  \/ BatchEnriched
  \/ BatchTimeout
  \/ BatchGathered
  \/ BatchReturn

BatchSpec == BatchInit /\ [][BatchNext]_vars

MaxRequests == 2

\* CampaignCreator rows inserted in one behaviour
MaxLinkRows == 3

LinkRequests == 1..MaxRequests

\* rows of the tables campaigns and creators, and the ids requests name
Campaigns == {1}
Creators == {1, 2}
CampaignIds == {1, 2}
CreatorIds == {1, 2, 3}

NoRequest ==
  [pc |-> "idle", kind |-> "none", campaign_id |-> 0, creator_id |-> 0,
   cc |-> 0, status |-> 0]

\* select(CampaignCreator).where(campaign_id == ..., creator_id == ...)
select_links(rows, campaign_id, creator_id) ==
  {row \in rows : row.campaign_id = campaign_id /\ row.creator_id = creator_id}

\* the handler ends: HTTPException(status), an unhandled exception (500), or
\* its return (200)
respond(r, status) ==
  links' = [links EXCEPT !.req[r].pc = "responded", !.req[r].status = status]

\* add requests that have not inserted their row yet
PendingAdds ==
  Cardinality({r \in LinkRequests : /\ links.req[r].kind = "add"
                                /\ links.req[r].pc # "responded"})

\* a request arrives
LinkRequest ==
  /\ \E r \in LinkRequests :
       /\ links.req[r].pc = "idle"
       /\ \E kind \in {"add", "remove"}, campaign_id \in CampaignIds,
             creator_id \in CreatorIds :
            /\ kind = "add" => links.next_id + PendingAdds <= MaxLinkRows
            /\ links' = [links EXCEPT !.req[r] =
                 [NoRequest EXCEPT !.pc = IF kind = "add" THEN "verify_campaign"
                                          ELSE "find_link",
                                   !.kind = kind,
                                   !.campaign_id = campaign_id,
                                   !.creator_id = creator_id]]
  /\ UNCHANGED <<cfg, db, seen, clock, call, probe, twitter, batch>>

\* add_creator_to_campaign: verify campaign exists
AddVerifyCampaign ==
  /\ \E r \in LinkRequests :
       /\ links.req[r].pc = "verify_campaign"
       /\ IF links.req[r].campaign_id \in Campaigns
          THEN links' = [links EXCEPT !.req[r].pc = "verify_creator"]
          ELSE respond(r, 404)
  /\ UNCHANGED <<cfg, db, seen, clock, call, probe, twitter, batch>>

\* add_creator_to_campaign: verify creator exists
AddVerifyCreator ==
  /\ \E r \in LinkRequests :
       /\ links.req[r].pc = "verify_creator"
       /\ IF links.req[r].creator_id \in Creators
          THEN links' = [links EXCEPT !.req[r].pc = "check_link"]
          ELSE respond(r, 404)
  /\ UNCHANGED <<cfg, db, seen, clock, call, probe, twitter, batch>>

\* add_creator_to_campaign: check if already added; scalar_one_or_none raises
\* MultipleResultsFound when the select returns more than one row
AddCheckLink ==
  /\ \E r \in LinkRequests :
       /\ links.req[r].pc = "check_link"
       /\ LET found == select_links(links.rows, links.req[r].campaign_id,
                                    links.req[r].creator_id)
          IN  IF Cardinality(found) > 1 THEN respond(r, 500)
              ELSE IF found # {} THEN respond(r, 400)
              ELSE links' = [links EXCEPT !.req[r].pc = "commit"]
  /\ UNCHANGED <<cfg, db, seen, clock, call, probe, twitter, batch>>

\* add_creator_to_campaign: db.add(cc); await db.commit(); return "added"
AddCommit ==
  /\ \E r \in LinkRequests :
       /\ links.req[r].pc = "commit"
       /\ links' = [links EXCEPT
            !.rows = @ \cup {[id |-> links.next_id,
                              campaign_id |-> links.req[r].campaign_id,
                              creator_id |-> links.req[r].creator_id]},
            !.next_id = @ + 1,
            !.req[r].pc = "responded",
            !.req[r].status = 200]
  /\ UNCHANGED <<cfg, db, seen, clock, call, probe, twitter, batch>>

\* remove_creator_from_campaign: select the link
RemoveFindLink ==
  /\ \E r \in LinkRequests :
       /\ links.req[r].pc = "find_link"
       /\ LET found == select_links(links.rows, links.req[r].campaign_id,
                                    links.req[r].creator_id)
          IN  IF Cardinality(found) > 1 THEN respond(r, 500)
              ELSE IF found = {} THEN respond(r, 404)
              ELSE links' = [links EXCEPT
                     !.req[r].pc = "delete",
                     !.req[r].cc = (CHOOSE row \in found : TRUE).id]
  /\ UNCHANGED <<cfg, db, seen, clock, call, probe, twitter, batch>>

\* remove_creator_from_campaign: await db.delete(cc); await db.commit();
\* return "removed".  The DELETE names the row by its primary key.
RemoveCommit ==
  /\ \E r \in LinkRequests :
       /\ links.req[r].pc = "delete"
       /\ links' = [links EXCEPT
            !.rows = {row \in @ : row.id # links.req[r].cc},
            !.req[r].pc = "responded",
            !.req[r].status = 200]
  /\ UNCHANGED <<cfg, db, seen, clock, call, probe, twitter, batch>>

\* the response is sent
LinkResponse ==
  /\ \E r \in LinkRequests :
       /\ links.req[r].pc = "responded"
       /\ links' = [links EXCEPT !.req[r] = NoRequest]
  /\ UNCHANGED <<cfg, db, seen, clock, call, probe, twitter, batch>>

CampaignInit ==
  /\ cfg = [twitter |-> FALSE, tiktok |-> FALSE, modash |-> FALSE, phyllo |-> FALSE]
  /\ db = EmptyBag
  /\ seen = {}
  /\ clock = 0
  /\ call = NoCall
  /\ probe = NoProbe
  /\ twitter = Unused
  /\ batch = Unused
  /\ links = [rows |-> {}, next_id |-> 1, req |-> [r \in LinkRequests |-> NoRequest]]

CampaignNext ==
  \/ LinkRequest
  \/ AddVerifyCampaign
  \/ AddVerifyCreator
  \/ AddCheckLink
  \/ AddCommit
  \/ RemoveFindLink
  \/ RemoveCommit
  \/ LinkResponse

CampaignSpec == CampaignInit /\ [][CampaignNext]_vars

\* C30: after any interleaving of add and remove requests there is at most one
\* CampaignCreator row per (campaign_id, creator_id), and no add request goes
\* on to insert a row for a pair that is linked already.
C30_LinkedAtMostOnce ==
  /\ \A campaign_id \in CampaignIds, creator_id \in CreatorIds :
       Cardinality(select_links(links.rows, campaign_id, creator_id)) <= 1
  /\ \A r \in LinkRequests :
       links.req[r].pc = "commit" =>
         select_links(links.rows, links.req[r].campaign_id,
                      links.req[r].creator_id) = {}

====
